---- MODULE Spec2Model ----
(***************************************************************************)
(* A model of the node-proxy routing table (ProxyConfig.getRule) and of    *)
(* the request dispatcher (ProxyServer.handleRequest and the upstream      *)
(* callbacks it registers).                                                *)
(*                                                                         *)
(* Strings the code cuts or concatenates (Host header, URL, rewrite `to`,  *)
(* cursor key) are sequences of one-character strings, so that split,      *)
(* startsWith, substring and + are computed as the code computes them.     *)
(* A JavaScript Map is a sequence of <<key, value>> entries with distinct  *)
(* keys, in insertion order.                                               *)
(***************************************************************************)
EXTENDS Integers, Sequences, FiniteSets, TLC

VARIABLES
    table,                \* ProxyConfig.configMap: port -> host-key -> path-key -> rule
    roundRobinCounters,   \* ProxyServer.roundRobinCounters: cursor key -> next index
    alive,                \* the process is running (no uncaught exception so far)
    reqs,                 \* the requests accepted so far, in order of arrival
    query,                \* a direct call of getRule: its arguments
    answer,               \* ... and what it returned
    document,             \* the parsed JSON document given to the loader
    loaded,               \* fromRawConfig has returned the table
    validation,           \* what ConfigValidator.validate returned for the document
    defaultsConfig,       \* ProxyConfig.defaultsConfig: the __defaults of the document
    portTLSMap,           \* ProxyServer.portTLSMap: listening port -> it terminates TLS
    cluster,              \* the cluster primary: its workers and the signals it got
    unreadable,           \* the ports whose certificate or key file cannot be read
    servers               \* ProxyServer.servers: the ports with a server that accepts requests

vars == <<table, roundRobinCounters, alive, reqs, query, answer, document, loaded,
                   validation, defaultsConfig, portTLSMap, cluster, unreadable, servers>>

-----------------------------------------------------------------------------
(* Bounds of the model *)

MaxReq == 2

\* The number of workers of the cluster (ServerConfig.workers).
WorkerCount == 3

\* cluster.fork() is called at most this many times.
MaxForks == 7

-----------------------------------------------------------------------------
(* Maps *)

EmptyMap == <<>>

MapKeys(m) == {m[i][1] : i \in 1..Len(m)}

MapHas(m, k) == \E i \in 1..Len(m) : m[i][1] = k

MapGet(m, k) == m[CHOOSE i \in 1..Len(m) : m[i][1] = k][2]

MapSet(m, k, v) ==
    IF MapHas(m, k)
    THEN [i \in 1..Len(m) |-> IF m[i][1] = k THEN <<k, v>> ELSE m[i]]
    ELSE Append(m, <<k, v>>)

-----------------------------------------------------------------------------
(* Strings *)

Wild == <<"*">>
Colon == ":"

Digit(d) == <<"0", "1", "2", "3", "4", "5", "6", "7", "8", "9">>[d + 1]

RECURSIVE DecimalString(_)
DecimalString(n) ==
    IF n < 10 THEN <<Digit(n)>>
    ELSE Append(DecimalString(n \div 10), Digit(n % 10))

StartsWith(s, prefix) ==
    /\ Len(prefix) <= Len(s)
    /\ SubSeq(s, 1, Len(prefix)) = prefix

Substring(s, from) == SubSeq(s, from + 1, Len(s))

\* hostHeader.split(':')[0]
BeforeColon(s) ==
    IF \E i \in 1..Len(s) : s[i] = Colon
    THEN SubSeq(s, 1, (CHOOSE i \in 1..Len(s) :
                          /\ s[i] = Colon
                          /\ \A j \in 1..(i - 1) : s[j] # Colon) - 1)
    ELSE s

-----------------------------------------------------------------------------
(* Rules *)

NoRule == [type |-> "none"]

ProxyRule(targets) == [type |-> "proxy", targets |-> targets]

RedirectRule(to, strip_prefix, status) ==
    [type |-> "redirect", to |-> to, strip_prefix |-> strip_prefix, status |-> status]

RewriteRule(to) == [type |-> "rewrite", to |-> to]

NoPrefix == <<>>

-----------------------------------------------------------------------------
(* Router: ProxyConfig.getRule *)

\* getRule with the "*" path-key consulted before the exact path-key.
getRuleWildcardFirst(port, hostname, path) ==
    IF ~MapHas(table, port) THEN NoRule
    ELSE
        LET hostMap == MapGet(table, port) IN
        IF ~MapHas(hostMap, hostname) /\ ~MapHas(hostMap, Wild) THEN NoRule
        ELSE
            LET pathMap == IF MapHas(hostMap, hostname)
                           THEN MapGet(hostMap, hostname)
                           ELSE MapGet(hostMap, Wild)
            IN  IF MapHas(pathMap, Wild) THEN MapGet(pathMap, Wild)
                ELSE IF MapHas(pathMap, path) THEN MapGet(pathMap, path)
                ELSE NoRule

\* getRule falling back to the first rule of the path-map when no key matches.
getRuleAnyPath(port, hostname, path) ==
    IF ~MapHas(table, port) THEN NoRule
    ELSE
        LET hostMap == MapGet(table, port) IN
        IF ~MapHas(hostMap, hostname) /\ ~MapHas(hostMap, Wild) THEN NoRule
        ELSE
            LET pathMap == IF MapHas(hostMap, hostname)
                           THEN MapGet(hostMap, hostname)
                           ELSE MapGet(hostMap, Wild)
            IN  IF MapHas(pathMap, path) THEN MapGet(pathMap, path)
                ELSE IF MapHas(pathMap, Wild) THEN MapGet(pathMap, Wild)
                ELSE IF pathMap # EmptyMap THEN pathMap[1][2]
                ELSE NoRule

\* getRule going on to the path-map of host "*" when the path-map of the exact
\* host-key holds no rule for the path.
getRuleRevisitsHost(port, hostname, path) ==
    IF ~MapHas(table, port) THEN NoRule
    ELSE
        LET hostMap == MapGet(table, port)
            InPathMap(pathMap) ==
                IF MapHas(pathMap, path) THEN MapGet(pathMap, path)
                ELSE IF MapHas(pathMap, Wild) THEN MapGet(pathMap, Wild)
                ELSE NoRule
        IN
        IF ~MapHas(hostMap, hostname) /\ ~MapHas(hostMap, Wild) THEN NoRule
        ELSE IF MapHas(hostMap, hostname)
                /\ (InPathMap(MapGet(hostMap, hostname)) # NoRule \/ ~MapHas(hostMap, Wild))
        THEN InPathMap(MapGet(hostMap, hostname))
        ELSE InPathMap(MapGet(hostMap, Wild))

getRule(port, hostname, path) ==
    IF ~MapHas(table, port) THEN NoRule
    ELSE
        LET hostMap == MapGet(table, port) IN
        IF ~MapHas(hostMap, hostname) /\ ~MapHas(hostMap, Wild) THEN NoRule
        ELSE
            LET pathMap == IF MapHas(hostMap, hostname)
                           THEN MapGet(hostMap, hostname)
                           ELSE MapGet(hostMap, Wild)
            IN  IF MapHas(pathMap, path) THEN MapGet(pathMap, path)
                ELSE IF MapHas(pathMap, Wild) THEN MapGet(pathMap, Wild)
                ELSE NoRule

NoRoute == <<>>

\* The <<port, host-key, path-key>> under which getRule finds the rule it returns.
MatchedRoute(port, hostname, path) ==
    IF ~MapHas(table, port) THEN NoRoute
    ELSE
        LET hostMap == MapGet(table, port) IN
        IF ~MapHas(hostMap, hostname) /\ ~MapHas(hostMap, Wild) THEN NoRoute
        ELSE
            LET hostKey == IF MapHas(hostMap, hostname) THEN hostname ELSE Wild
                pathMap == MapGet(hostMap, hostKey)
            IN  IF MapHas(pathMap, path) THEN <<port, hostKey, path>>
                ELSE IF MapHas(pathMap, Wild) THEN <<port, hostKey, Wild>>
                ELSE NoRoute

RuleAt(route) == MapGet(MapGet(MapGet(table, route[1]), route[2]), route[3])

-----------------------------------------------------------------------------
(* Upstream selector: ProxyServer.getNextTarget *)

NoKey == <<>>
Undefined == "undefined"

\* A cursor key that leaves the path out.
CounterKeyWithoutPath(port, hostname, path) ==
    DecimalString(port) \o <<Colon>> \o hostname

\* `${port}:${hostname}:${path}`
CounterKey(port, hostname, path) ==
    DecimalString(port) \o <<Colon>> \o hostname \o <<Colon>> \o path

\* getNextTarget keeping a cursor for a rule with one target too.
getNextTargetCountsSingle(rule, port, hostname, path, counters) ==
    IF Len(rule.targets) = 0
    THEN [threw |-> TRUE, target |-> Undefined, counters |-> counters,
          key |-> NoKey, index |-> -1]
    ELSE
        LET key == CounterKey(port, hostname, path)
            currentIndex == IF MapHas(counters, key) THEN MapGet(counters, key) ELSE 0
            target == rule.targets[currentIndex + 1]
            nextIndex == (currentIndex + 1) % Len(rule.targets)
        IN  [threw |-> FALSE, target |-> target,
             counters |-> MapSet(counters, key, nextIndex),
             key |-> IF Len(rule.targets) = 1 THEN NoKey ELSE key,
             index |-> IF Len(rule.targets) = 1 THEN -1 ELSE currentIndex]

getNextTarget(rule, port, hostname, path, counters) ==
    IF Len(rule.targets) = 0
    THEN [threw |-> TRUE, target |-> Undefined, counters |-> counters,
          key |-> NoKey, index |-> -1]
    ELSE IF Len(rule.targets) = 1
    THEN [threw |-> FALSE, target |-> rule.targets[1], counters |-> counters,
          key |-> NoKey, index |-> -1]
    ELSE
        LET key == CounterKey(port, hostname, path)
            currentIndex == IF MapHas(counters, key) THEN MapGet(counters, key) ELSE 0
            target == rule.targets[currentIndex + 1]
            nextIndex == (currentIndex + 1) % Len(rule.targets)
        IN  [threw |-> FALSE, target |-> target,
             counters |-> MapSet(counters, key, nextIndex),
             key |-> key, index |-> currentIndex]

-----------------------------------------------------------------------------
(* JSON values: the parsed configuration document and the defaults the       *)
(* server reads from it.                                                     *)

JsonUndefined == [json |-> "undefined"]
JsonString(s) == [json |-> "string", string |-> s]
JsonText(chars) == [json |-> "string", chars |-> chars]
JsonNumber(n) == [json |-> "number", number |-> n]
JsonBoolean(b) == [json |-> "boolean", bool |-> b]
JsonNull == [json |-> "null"]
JsonArray(items) == [json |-> "array", items |-> items]
JsonObject(entries) == [json |-> "object", entries |-> entries]

KeyDefaults == <<"_", "_", "d", "e", "f", "a", "u", "l", "t", "s">>
KeyHosts == <<"h", "o", "s", "t", "s">>
KeyTls == <<"t", "l", "s">>
KeyType == <<"t", "y", "p", "e">>
KeyTo == <<"t", "o">>
KeyStatus == <<"s", "t", "a", "t", "u", "s">>
KeyStripPrefix == <<"s", "t", "r", "i", "p", "_", "p", "r", "e", "f", "i", "x">>
KeyCert == <<"c", "e", "r", "t">>
KeyKey == <<"k", "e", "y">>
\* The keys of the defaults the dispatcher reads.
HeaderKeys ==
    [headers |-> <<"h", "e", "a", "d", "e", "r", "s">>,
     x_forwarded |-> <<"x", "_", "f", "o", "r", "w", "a", "r", "d", "e", "d">>,
     pass_host |-> <<"p", "a", "s", "s", "_", "h", "o", "s", "t">>]

\* object.key, undefined when the object has no such key
Field(object, key) ==
    IF MapHas(object.entries, key) THEN MapGet(object.entries, key) ELSE JsonUndefined

\* object?.key
Chain(object, key) ==
    IF object.json = "object" THEN Field(object, key) ELSE JsonUndefined

\* 'key' in object
In(key, object) == MapHas(object.entries, key)

\* typeof value === 'string'
IsString(value) == value.json = "string"

\* The JavaScript string of a JsonString, the value undefined otherwise.
StringOf(value) == IF "string" \in DOMAIN value THEN value.string ELSE Undefined

\* !value is false
Truthy(value) ==
    CASE value.json \in {"undefined", "null"} -> FALSE
      [] value.json = "string" ->
            IF "string" \in DOMAIN value THEN value.string # "" ELSE value.chars # <<>>
      [] value.json = "number" -> value.number # 0
      [] value.json = "boolean" -> value.bool
      [] OTHER -> TRUE

-----------------------------------------------------------------------------
(* Dispatcher: what one call of ProxyServer.handleRequest does, up to the    *)
(* point where it returns to the event loop.  An outcome is one of           *)
(*   "respond"  - res.writeHead(status, ...) and res.end(body) were called;   *)
(*   "upstream" - an upstream request for upPath was sent to target;         *)
(*   "threw"    - an exception left handleRequest.                           *)
(* route, key, index, resolves and via record what the handler did: the      *)
(* route of the rule it dispatched, the cursor key and index it used, the    *)
(* number of getRule calls, and the branch taken.                            *)

NoString == <<>>

PlainText == "text/plain"
NoHeader == ""

\* res.writeHead(status, {'Content-Type': contentType, Location: location}) and
\* res.end(body); a header the call does not name is NoHeader / NoString.
Respond(status, contentType, body, location, via, resolves, counters) ==
    [kind |-> "respond", status |-> status, contentType |-> contentType,
     body |-> body, location |-> location,
     target |-> Undefined, upPath |-> NoString, counters |-> counters,
     route |-> NoRoute, key |-> NoKey, index |-> -1,
     resolves |-> resolves, via |-> via]

Threw(via, resolves, counters) ==
    [kind |-> "threw", status |-> 0, contentType |-> NoHeader,
     body |-> "", location |-> NoString,
     target |-> Undefined, upPath |-> NoString, counters |-> counters,
     route |-> NoRoute, key |-> NoKey, index |-> -1,
     resolves |-> resolves, via |-> via]

Upstream(target, upPath, route, key, index, via, resolves, counters) ==
    [kind |-> "upstream", status |-> 0, contentType |-> NoHeader,
     body |-> "", location |-> NoString,
     target |-> target, upPath |-> upPath, counters |-> counters,
     route |-> route, key |-> key, index |-> index,
     resolves |-> resolves, via |-> via]

\* Origins that `new URL(target)` parses; it throws on anything else.
ValidOrigins ==
    {"http://a1", "http://a2", "http://a3", "http://b1", "http://b2",
     "http://c1", "http://c2", "http://d1", "http://d2", "http://e1"}

\* new URL(target) does not throw: the origins, and a URL whose protocol is
\* neither http: nor https:.
IsValidURL(target) == target \in ValidOrigins \cup {"ftp://files"}

\* res.writeHead throws a RangeError outside this range.
IsValidStatus(status) == status >= 100 /\ status <= 999

\* handleProxy(rule, req, res, port, hostname, path, ...); url is req.url.
handleProxy(rule, port, hostname, path, url, counters, via, resolves) ==
    LET sel == getNextTarget(rule, port, hostname, path, counters) IN
    IF sel.threw THEN Threw(via, resolves, counters)
    ELSE IF ~IsValidURL(sel.target) THEN Threw(via, resolves, sel.counters)
    ELSE Upstream(sel.target, url, MatchedRoute(port, hostname, path),
                  sel.key, sel.index, via, resolves, sel.counters)

handleRedirect(rule, url, counters, resolves) ==
    LET redirectUrl ==
            IF rule.strip_prefix # NoPrefix /\ StartsWith(url, rule.strip_prefix)
            THEN rule.to \o Substring(url, Len(rule.strip_prefix))
            ELSE rule.to
    IN  IF IsValidStatus(rule.status)
        THEN Respond(rule.status, NoHeader, "", redirectUrl, "redirect", resolves, counters)
        ELSE Threw("redirect", resolves, counters)

\* The else branch of handleRewrite: the first ProxyRule of the host's path-map.
rewriteFallback(port, hostname, rewrittenUrl, counters, resolves) ==
    LET portMap == IF MapHas(table, port) THEN MapGet(table, port) ELSE EmptyMap
        hostKey == IF MapHas(portMap, hostname) THEN hostname ELSE Wild
        hostMap == IF MapHas(portMap, hostKey) THEN MapGet(portMap, hostKey) ELSE EmptyMap
        proxies == {i \in 1..Len(hostMap) : hostMap[i][2].type = "proxy"}
    IN  IF proxies = {}
        THEN Respond(404, PlainText, "Not Found", NoString, "rewrite-404", resolves, counters)
        ELSE
            LET first == CHOOSE i \in proxies : \A j \in proxies : i <= j
                proxyRule == hostMap[first][2]
                target == IF Len(proxyRule.targets) = 0 THEN Undefined
                          ELSE proxyRule.targets[1]
            IN  IF ~IsValidURL(target) THEN Threw("rewrite-fallback", resolves, counters)
                ELSE Upstream(target, rewrittenUrl, <<port, hostKey, hostMap[first][1]>>,
                              NoKey, -1, "rewrite-fallback", resolves, counters)

\* handleRewrite forwarding the rewritten URL to the re-resolved ProxyRule.
handleRewriteForwardsRewritten(rule, port, hostname, url, counters, resolves) ==
    LET originalUrl == url
        rewrittenUrl == rule.to \o originalUrl
        rewrittenRule == getRule(port, hostname, rewrittenUrl)
    IN  IF rewrittenRule.type = "proxy"
        THEN handleProxy(rewrittenRule, port, hostname, rewrittenUrl, rewrittenUrl,
                         counters, "rewrite-proxy", resolves + 1)
        ELSE rewriteFallback(port, hostname, rewrittenUrl, counters, resolves + 1)

\* handleRewrite following a re-resolved RewriteRule once more.
handleRewriteFollows(rule, port, hostname, url, counters, resolves) ==
    LET originalUrl == url
        rewrittenUrl == rule.to \o originalUrl
        rewrittenRule == getRule(port, hostname, rewrittenUrl)
        again == IF rewrittenRule.type = "rewrite"
                 THEN rewrittenRule.to \o rewrittenUrl ELSE rewrittenUrl
        lastRule == IF rewrittenRule.type = "rewrite"
                    THEN getRule(port, hostname, again) ELSE rewrittenRule
        calls == IF rewrittenRule.type = "rewrite" THEN 2 ELSE 1
    IN  IF lastRule.type = "proxy"
        THEN handleProxy(lastRule, port, hostname, again, url, counters,
                         "rewrite-proxy", resolves + calls)
        ELSE rewriteFallback(port, hostname, again, counters, resolves + calls)

handleRewrite(rule, port, hostname, url, counters, resolves) ==
    LET originalUrl == url
        rewrittenUrl == rule.to \o originalUrl
        rewrittenRule == getRule(port, hostname, rewrittenUrl)
    IN  IF rewrittenRule.type = "proxy"
        THEN handleProxy(rewrittenRule, port, hostname, rewrittenUrl, url, counters,
                         "rewrite-proxy", resolves + 1)
        ELSE rewriteFallback(port, hostname, rewrittenUrl, counters, resolves + 1)

NoHost == <<"(no Host header)">>

\* handleRequest creating a cursor for a request that matches no rule.
handleRequestCountsMisses(port, hostHeader, url, counters) ==
    LET path == url
        hostname == BeforeColon(IF hostHeader = NoHost THEN Wild ELSE hostHeader)
        rule == getRule(port, hostname, path)
    IN  CASE rule.type = "none" ->
                Respond(404, PlainText, "Not Found", NoString, "404", 1,
                        MapSet(counters, CounterKey(port, hostname, path), 0))
          [] rule.type = "proxy" ->
                handleProxy(rule, port, hostname, path, url, counters, "proxy", 1)
          [] rule.type = "redirect" ->
                handleRedirect(rule, url, counters, 1)
          [] rule.type = "rewrite" ->
                handleRewrite(rule, port, hostname, url, counters, 1)
          [] OTHER ->
                Respond(500, PlainText, "Internal Server Error: Unknown rule type",
                        NoString, "500", 1, counters)

\* (req.headers.host ?? '*').split(':')[0]
Hostname(hostHeader) == BeforeColon(IF hostHeader = NoHost THEN Wild ELSE hostHeader)

\* handleRequest(port, req, res): hostHeader is req.headers.host (NoHost when the
\* request has none), url is req.url.
handleRequest(port, hostHeader, url, counters) ==
    LET path == url
        hostname == Hostname(hostHeader)
        rule == getRule(port, hostname, path)
    IN  CASE rule.type = "none" ->
                Respond(404, PlainText, "Not Found", NoString, "404", 1, counters)
          [] rule.type = "proxy" ->
                handleProxy(rule, port, hostname, path, url, counters, "proxy", 1)
          [] rule.type = "redirect" ->
                handleRedirect(rule, url, counters, 1)
          [] rule.type = "rewrite" ->
                handleRewrite(rule, port, hostname, url, counters, 1)
          [] OTHER ->
                Respond(500, PlainText, "Internal Server Error: Unknown rule type", NoString,
                        "500", 1, counters)

-----------------------------------------------------------------------------
(* The headers of the upstream request.  Of the client's headers the model   *)
(* keeps Host and X-Forwarded-For; the client sends no X-Forwarded-Host and  *)
(* no X-Forwarded-Proto.  A header the message does not carry is NoHost,     *)
(* NoLine or NoHeader.                                                       *)

NoLine == <<"(no such header)">>

\* handleProxy with X-Forwarded-Proto always 'http'.
proxyHeadersPlainProto(hostHeader, forwardedFor, clientIp, port, defaults, tlsMap) ==
    LET x_forwarded == Truthy(Chain(Chain(defaults, HeaderKeys.headers), HeaderKeys.x_forwarded))
        pass_host == Truthy(Chain(Chain(defaults, HeaderKeys.headers), HeaderKeys.pass_host))
        existingForwardedFor == forwardedFor
        isTLS == IF port \in DOMAIN tlsMap THEN tlsMap[port] ELSE FALSE
    IN  [forwardedFor |->
            IF x_forwarded
            THEN IF existingForwardedFor # NoLine /\ existingForwardedFor # <<>>
                 THEN existingForwardedFor \o <<",", " ">> \o clientIp
                 ELSE clientIp
            ELSE forwardedFor,
         forwardedHost |->
            IF x_forwarded
            THEN IF hostHeader = NoHost THEN <<>> ELSE hostHeader
            ELSE NoLine,
         forwardedProto |->
            IF x_forwarded THEN "http" ELSE NoHeader,
         host |->
            IF pass_host /\ hostHeader # NoHost /\ hostHeader # <<>> THEN hostHeader ELSE NoHost]

\* handleProxy without the test of pass_host.
proxyHeadersKeepHost(hostHeader, forwardedFor, clientIp, port, defaults, tlsMap) ==
    LET x_forwarded == Truthy(Chain(Chain(defaults, HeaderKeys.headers), HeaderKeys.x_forwarded))
        pass_host == Truthy(Chain(Chain(defaults, HeaderKeys.headers), HeaderKeys.pass_host))
        existingForwardedFor == forwardedFor
        isTLS == IF port \in DOMAIN tlsMap THEN tlsMap[port] ELSE FALSE
    IN  [forwardedFor |->
            IF x_forwarded
            THEN IF existingForwardedFor # NoLine /\ existingForwardedFor # <<>>
                 THEN existingForwardedFor \o <<",", " ">> \o clientIp
                 ELSE clientIp
            ELSE forwardedFor,
         forwardedHost |->
            IF x_forwarded
            THEN IF hostHeader = NoHost THEN <<>> ELSE hostHeader
            ELSE NoLine,
         forwardedProto |->
            IF x_forwarded THEN (IF isTLS THEN "https" ELSE "http") ELSE NoHeader,
         host |->
            IF hostHeader # NoHost /\ hostHeader # <<>> THEN hostHeader ELSE NoHost]

\* handleProxy: the headers object it builds from req.headers, the defaults of
\* the configuration and the listener the request came in on.
proxyHeaders(hostHeader, forwardedFor, clientIp, port, defaults, tlsMap) ==
    LET x_forwarded == Truthy(Chain(Chain(defaults, HeaderKeys.headers), HeaderKeys.x_forwarded))
        pass_host == Truthy(Chain(Chain(defaults, HeaderKeys.headers), HeaderKeys.pass_host))
        existingForwardedFor == forwardedFor
        isTLS == IF port \in DOMAIN tlsMap THEN tlsMap[port] ELSE FALSE
    IN  [forwardedFor |->
            IF x_forwarded
            THEN IF existingForwardedFor # NoLine /\ existingForwardedFor # <<>>
                 THEN existingForwardedFor \o <<",", " ">> \o clientIp
                 ELSE clientIp
            ELSE forwardedFor,
         forwardedHost |->
            IF x_forwarded
            THEN IF hostHeader = NoHost THEN <<>> ELSE hostHeader
            ELSE NoLine,
         forwardedProto |->
            IF x_forwarded THEN (IF isTLS THEN "https" ELSE "http") ELSE NoHeader,
         host |->
            IF pass_host /\ hostHeader # NoHost /\ hostHeader # <<>> THEN hostHeader ELSE NoHost]

\* The fallback of handleRewrite forwarding the client's headers as they came.
fallbackHeadersBare(hostHeader, forwardedFor, clientIp, port, defaults, tlsMap) ==
    [forwardedFor |-> forwardedFor, forwardedHost |-> NoLine,
     forwardedProto |-> NoHeader, host |-> hostHeader]

\* handleRewrite, wildcard fallback: the headers object it builds.
fallbackHeaders(hostHeader, forwardedFor, clientIp, port, defaults, tlsMap) ==
    LET x_forwarded == Truthy(Chain(Chain(defaults, HeaderKeys.headers), HeaderKeys.x_forwarded))
        pass_host == Truthy(Chain(Chain(defaults, HeaderKeys.headers), HeaderKeys.pass_host))
        existingForwardedFor == forwardedFor
        isTLS == IF port \in DOMAIN tlsMap THEN tlsMap[port] ELSE FALSE
    IN  [forwardedFor |->
            IF x_forwarded
            THEN IF existingForwardedFor # NoLine /\ existingForwardedFor # <<>>
                 THEN existingForwardedFor \o <<",", " ">> \o clientIp
                 ELSE clientIp
            ELSE forwardedFor,
         forwardedHost |->
            IF x_forwarded
            THEN IF hostHeader = NoHost THEN <<>> ELSE hostHeader
            ELSE NoLine,
         forwardedProto |->
            IF x_forwarded THEN (IF isTLS THEN "https" ELSE "http") ELSE NoHeader,
         host |->
            IF pass_host /\ hostHeader # NoHost /\ hostHeader # <<>> THEN hostHeader ELSE NoHost]

-----------------------------------------------------------------------------
(* Configurations: routing tables the loader produces *)

HostH1 == <<"h", "1">>
HostH2 == <<"h", "2">>
PathA == <<"/", "a">>
PathB == <<"/", "b">>
ToN == <<"/", "n">>
ToR == <<"/", "r">>

Absent == <<>>
Present(x) == <<x>>

\* The Map holding, in order, the entries <<key, Present(value)>> of es.
Entries(es) ==
    LET kept == SelectSeq(es, LAMBDA e : e[2] # Absent)
    IN  [i \in 1..Len(kept) |-> <<kept[i][1], kept[i][2][1]>>]

Optional(values) == {Absent} \cup {Present(v) : v \in values}

\* Every choice of path-keys among /a and "*", each slot with its own rule.
PathMaps(ruleA, ruleWild) ==
    {Entries(<<<<PathA, a>>, <<Wild, w>>>>) :
        a \in Optional({ruleA}), w \in Optional({ruleWild})}

\* Every choice of host-keys among h1 and "*" over the given path-maps.
HostMaps(h1Maps, wildMaps) ==
    {Entries(<<<<HostH1, h>>, <<Wild, w>>>>) :
        h \in Optional(h1Maps), w \in Optional(wildMaps)}

\* Two-level routing on port 80 with load-balanced rules in every slot.
BalancedTables ==
    {<<<<80, hostMap>>>> :
        hostMap \in HostMaps(
            PathMaps(ProxyRule(<<"http://a1", "http://a2", "http://a3">>),
                     ProxyRule(<<"http://b1", "http://b2">>)) \ {EmptyMap},
            PathMaps(ProxyRule(<<"http://c1", "http://c2">>),
                     ProxyRule(<<"http://d1", "http://d2">>)) \ {EmptyMap})}

\* One host-key "*" whose /a is rewritten to /n/a, with every choice of what
\* /n/a and "*" hold.
RewritePathMaps(proxyAtNA, proxyAtWild) ==
    {Entries(<<<<PathA, Present(RewriteRule(ToN))>>,
               <<ToN \o PathA, x>>,
               <<Wild, z>>>>) :
        x \in Optional({proxyAtNA, RedirectRule(ToR, PathA, 301), RewriteRule(ToN)}),
        z \in Optional({proxyAtWild, RewriteRule(ToN)})}

RewriteTables ==
    {<<<<80, <<<<Wild, pathMap>>>>>>>> :
        pathMap \in RewritePathMaps(ProxyRule(<<"http://a1", "http://a2">>),
                                    ProxyRule(<<"http://d1", "http://d2">>))}

\* Documents the loader takes as they are: a proxy rule with `to: []`, a
\* target that is no URL, a redirect whose status is no HTTP status.
FaultyTables ==
    {<<<<80, <<<<Wild, pathMap>>>>>>>> :
        pathMap \in {<<<<Wild, ProxyRule(<<>>)>>>>,
                     <<<<Wild, ProxyRule(<<"backend">>)>>>>,
                     <<<<Wild, RedirectRule(ToR, NoPrefix, 1000)>>>>,
                     <<<<PathA, RewriteRule(ToN)>>, <<PathB, ProxyRule(<<>>)>>>>,
                     <<<<PathA, RewriteRule(ToN)>>, <<PathB, ProxyRule(<<"backend">>)>>>>}}

\* Host h1 rewrites /a and may hold a ProxyRule at /b; host "*" holds one.
FallbackTables ==
    {<<<<80, <<<<HostH1, Entries(<<<<PathA, Present(RewriteRule(ToN))>>,
                                   <<PathB, x>>>>)>>,
               <<Wild, <<<<Wild, ProxyRule(<<"http://d1", "http://d2">>)>>>>>>>>>>>> :
        x \in Optional({ProxyRule(<<"http://e1", "http://b1">>)})}

\* One RedirectRule for every URL, with and without strip_prefix.
RedirectTables ==
    {<<<<80, <<<<Wild, <<<<Wild, RedirectRule(ToR, strip_prefix, 301)>>>>>>>>>>>> :
        strip_prefix \in {NoPrefix, <<"/">>, PathA}}

\* Host h1 holds a ProxyRule with one target at /a; host "*" load-balances.
SingleTables ==
    {<<<<80, <<<<HostH1, <<<<PathA, ProxyRule(<<"http://a1">>)>>>>>>,
               <<Wild, <<<<Wild, ProxyRule(<<"http://d1", "http://d2">>)>>>>>>>>>>>>}

Tables ==
    BalancedTables \cup RewriteTables \cup FallbackTables \cup FaultyTables
        \cup RedirectTables \cup SingleTables

RequestHosts == {HostH1, HostH2}
RequestUrls == {PathA, PathB}
UpstreamStatuses == {200}

-----------------------------------------------------------------------------
(* The server: requests arrive, upstream events and client disconnects       *)
(* interleave.                                                             *)

\* The ports with a server: startWorkers enters each in servers and in
\* portTLSMap.
Listening == servers

NewRequest(port, hostHeader, url, forwardedFor, clientIp, sent, out) ==
    [port |-> port, host |-> hostHeader, url |-> url,
     forwardedFor |-> forwardedFor, clientIp |-> clientIp, sent |-> sent,
     pc |-> CASE out.kind = "respond" -> "done"
              [] out.kind = "upstream" -> "upstream"
              [] OTHER -> "threw",
     headersSent |-> out.kind = "respond",
     writes |-> IF out.kind = "respond" THEN 1 ELSE 0,
     delivered |-> IF out.kind = "respond" THEN 1 ELSE 0,
     status |-> out.status, contentType |-> out.contentType,
     body |-> out.body, location |-> out.location,
     ended |-> out.kind = "respond", failed |-> "no",
     clientGone |-> FALSE,
     target |-> out.target, upPath |-> out.upPath,
     route |-> out.route, key |-> out.key, index |-> out.index,
     resolves |-> out.resolves, via |-> out.via]

\* req and res live only for their request: once the exchange is over, what
\* stays of it is what the dispatch did (route, cursor key, index, branch).
Closed(r) ==
    [r EXCEPT !.pc = "closed", !.headersSent = FALSE, !.writes = 0, !.delivered = 0,
              !.status = 0, !.contentType = NoHeader, !.body = "",
              !.location = NoString, !.ended = FALSE, !.failed = "no",
              !.clientGone = FALSE,
              !.target = Undefined, !.upPath = NoString]

Over == {"done", "broken"}

Settled ==
    [i \in 1..Len(reqs) |-> IF reqs[i].pc \in Over THEN Closed(reqs[i]) ELSE reqs[i]]

\* Arrival with a fallback scan that stores the ProxyRule it found in the
\* path-map, under the rewritten URL.
ArrivalCachesFallback(port, hostHeader, url, forwardedFor, clientIp) ==
    /\ alive
    /\ Len(reqs) < MaxReq
    /\ port \in Listening
    /\ LET out == handleRequest(port, hostHeader, url, roundRobinCounters)
           sent == IF out.kind # "upstream"
                   THEN [forwardedFor |-> NoLine, forwardedHost |-> NoLine,
                         forwardedProto |-> NoHeader, host |-> NoHost]
                   ELSE IF out.via = "rewrite-fallback"
                   THEN fallbackHeaders(hostHeader, forwardedFor, clientIp, port,
                                        defaultsConfig, portTLSMap)
                   ELSE proxyHeaders(hostHeader, forwardedFor, clientIp, port,
                                     defaultsConfig, portTLSMap)
       IN
        /\ reqs' = Append(Settled, NewRequest(port, hostHeader, url, forwardedFor,
                                              clientIp, sent, out))
        /\ roundRobinCounters' = out.counters
        /\ alive' = (out.kind # "threw")
        /\ table' =
                IF out.kind = "upstream" /\ out.via = "rewrite-fallback"
                THEN LET hostMap == MapGet(table, port)
                         pathMap == MapGet(hostMap, out.route[2])
                     IN  MapSet(table, port,
                                MapSet(hostMap, out.route[2],
                                       MapSet(pathMap, out.upPath, RuleAt(out.route))))
                ELSE table
    /\ UNCHANGED <<query, answer, document, loaded,
                   validation, defaultsConfig, portTLSMap, cluster, unreadable, servers>>

\* A request arrives on a listening port and handleRequest runs to its return.
\* forwardedFor is the client's X-Forwarded-For header, clientIp is
\* req.socket.remoteAddress.
Arrival(port, hostHeader, url, forwardedFor, clientIp) ==
    /\ alive
    /\ Len(reqs) < MaxReq
    /\ port \in Listening
    /\ LET out == handleRequest(port, hostHeader, url, roundRobinCounters)
           sent == IF out.kind # "upstream"
                   THEN [forwardedFor |-> NoLine, forwardedHost |-> NoLine,
                         forwardedProto |-> NoHeader, host |-> NoHost]
                   ELSE IF out.via = "rewrite-fallback"
                   THEN fallbackHeaders(hostHeader, forwardedFor, clientIp, port,
                                        defaultsConfig, portTLSMap)
                   ELSE proxyHeaders(hostHeader, forwardedFor, clientIp, port,
                                     defaultsConfig, portTLSMap)
       IN
        /\ reqs' = Append(Settled, NewRequest(port, hostHeader, url, forwardedFor,
                                              clientIp, sent, out))
        /\ roundRobinCounters' = out.counters
        /\ alive' = (out.kind # "threw")
    /\ UNCHANGED <<table, query, answer, document, loaded,
                   validation, defaultsConfig, portTLSMap, cluster, unreadable, servers>>

\* A request of a client at ::1 that sends no X-Forwarded-For.
Request(port, hostHeader, url) == Arrival(port, hostHeader, url, NoLine, <<":", ":", "1">>)

\* The 'response' callback of the upstream request: res.writeHead(statusCode),
\* proxyRes.pipe(res).  writeHead throws when the headers were already sent.
UpstreamResponse(i, statusCode) ==
    /\ alive
    /\ reqs[i].pc = "upstream"
    /\ IF reqs[i].headersSent
       THEN /\ reqs' = [Settled EXCEPT ![i].pc = "threw"]
            /\ alive' = FALSE
       ELSE /\ reqs' = [Settled EXCEPT ![i].pc = "piping",
                                       ![i].headersSent = TRUE,
                                       ![i].writes = @ + 1,
                                       ![i].delivered = IF reqs[i].clientGone THEN @ ELSE @ + 1,
                                       ![i].status = statusCode,
                                       ![i].body = "upstream"]
            /\ alive' = alive
    /\ UNCHANGED <<table, roundRobinCounters, query, answer, document, loaded,
                   validation, defaultsConfig, portTLSMap, cluster, unreadable, servers>>

\* The upstream response ends: the pipe ends res.
UpstreamEnd(i) ==
    /\ alive
    /\ reqs[i].pc = "piping"
    /\ reqs' = [Settled EXCEPT ![i].pc = "done", ![i].ended = TRUE]
    /\ UNCHANGED <<table, roundRobinCounters, alive, query, answer, document, loaded,
                   validation, defaultsConfig, portTLSMap, cluster, unreadable, servers>>

\* The 'error' listener with its test of res.headersSent inverted: nothing is
\* written when the headers are still unsent.
UpstreamErrorUnanswered(i) ==
    /\ alive
    /\ reqs[i].pc \in {"upstream", "piping"}
    /\ reqs' = [Settled EXCEPT ![i].pc = "broken",
                                ![i].failed = IF reqs[i].headersSent THEN "late" ELSE "early"]
    /\ UNCHANGED <<table, roundRobinCounters, alive, query, answer, document, loaded,
                   validation, defaultsConfig, portTLSMap, cluster, unreadable, servers>>

\* The 'error' listener of the upstream request.  The request emits no
\* 'response' after an 'error'.  With the headers already sent the listener
\* does nothing: res is neither ended nor destroyed.
UpstreamError(i) ==
    /\ alive
    /\ reqs[i].pc \in {"upstream", "piping"}
    /\ IF ~reqs[i].headersSent
       THEN reqs' = [Settled EXCEPT ![i].pc = "done",
                                    ![i].failed = "early",
                                    ![i].headersSent = TRUE,
                                    ![i].writes = @ + 1,
                                    ![i].delivered = IF reqs[i].clientGone THEN @ ELSE @ + 1,
                                    ![i].status = 502,
                                    ![i].contentType = PlainText,
                                    ![i].body = "Bad Gateway",
                                    ![i].ended = TRUE]
       ELSE reqs' = [Settled EXCEPT ![i].pc = "broken", ![i].failed = "late"]
    /\ UNCHANGED <<table, roundRobinCounters, alive, query, answer, document, loaded,
                   validation, defaultsConfig, portTLSMap, cluster, unreadable, servers>>

\* The client goes away while its request is in flight; no handler listens.
ClientDisconnect(i) ==
    /\ alive
    /\ reqs[i].pc \in {"upstream", "piping"}
    /\ ~reqs[i].clientGone
    /\ reqs' = [Settled EXCEPT ![i].clientGone = TRUE]
    /\ UNCHANGED <<table, roundRobinCounters, alive, query, answer, document, loaded,
                   validation, defaultsConfig, portTLSMap, cluster, unreadable, servers>>

\* The table was built without a document.
NoDocument == [json |-> "undefined"]

\* The idle values of the parts of the state a specification does not use.
NoValidation == [done |-> FALSE]

NoCluster == [started |-> FALSE, workers |-> {}, forks |-> 0, sigterm |-> FALSE]

NoQuery == [port |-> 0, hostname |-> NoString, path |-> NoString, asked |-> FALSE]

Init ==
    /\ table \in Tables
    /\ roundRobinCounters = EmptyMap
    /\ alive = TRUE
    /\ reqs = <<>>
    /\ query = NoQuery
    /\ answer = NoRule
    /\ document = NoDocument
    /\ loaded = TRUE
    /\ validation = NoValidation
    /\ defaultsConfig = NoDocument
    /\ portTLSMap = [port \in MapKeys(table) |-> FALSE]
    /\ cluster = NoCluster
    /\ unreadable = {}
    /\ servers = DOMAIN portTLSMap

Next ==
    \/ \E port \in Listening, hostHeader \in RequestHosts, url \in RequestUrls :
            Request(port, hostHeader, url)
    \/ \E i \in 1..Len(reqs), statusCode \in UpstreamStatuses :
            UpstreamResponse(i, statusCode)
    \/ \E i \in 1..Len(reqs) : UpstreamEnd(i)
    \/ \E i \in 1..Len(reqs) : UpstreamError(i)
    \/ \E i \in 1..Len(reqs) : ClientDisconnect(i)

Spec == Init /\ [][Next]_vars

-----------------------------------------------------------------------------
(* Shutdown of the single process: ProxyServer.stop and the handler that     *)
(* startServer registers for SIGINT and SIGTERM.                             *)

\* proxyServer.stop(): server.close() on every server, which stops it from
\* accepting and leaves the requests in flight to go on, then servers.clear().
Stop ==
    /\ alive
    /\ servers # {}
    /\ servers' = {}
    /\ UNCHANGED <<table, roundRobinCounters, alive, reqs, query, answer, document, loaded,
                   validation, defaultsConfig, portTLSMap, cluster, unreadable>>

\* The process receives SIGINT or SIGTERM: shutdown() calls proxyServer.stop()
\* and then process.exit(0).
Shutdown ==
    /\ alive
    /\ servers' = {}
    /\ alive' = FALSE
    /\ UNCHANGED <<table, roundRobinCounters, reqs, query, answer, document, loaded,
                   validation, defaultsConfig, portTLSMap, cluster, unreadable>>

ShutdownNext ==
    \/ Next
    \/ Stop
    \/ Shutdown

ShutdownSpec == Init /\ [][ShutdownNext]_vars

-----------------------------------------------------------------------------
(* One request with any Host header and any URL: Host headers in another     *)
(* letter case, with a port suffix or absent, URLs with a query string.      *)

HostH1Upper == <<"H", "1">>
HostH1Port == <<"h", "1", ":", "8", "0">>
PathAQuery == PathA \o <<"?", "q">>

ArrivalHosts == {HostH1, HostH1Upper, HostH1Port, HostH2, NoHost}
ArrivalUrls == {PathA, PathAQuery, PathB}

FirstRequest(port, hostHeader, url) ==
    /\ reqs = <<>>
    /\ Request(port, hostHeader, url)

ArrivalNext ==
    \E port \in Listening, hostHeader \in ArrivalHosts, url \in ArrivalUrls :
        FirstRequest(port, hostHeader, url)

ArrivalSpec == Init /\ [][ArrivalNext]_vars

-----------------------------------------------------------------------------
(* The header policy: requests with and without Host and X-Forwarded-For,    *)
(* empty ones included, on a plain and on a TLS listener, under every         *)
(* setting of the defaults.                                                  *)

HeaderInit ==
    /\ table \in FallbackTables
    /\ defaultsConfig \in
            {JsonUndefined, JsonObject(<<>>)} \cup
            {JsonObject(<<<<HeaderKeys.headers,
                            JsonObject(Entries(<<<<HeaderKeys.x_forwarded, x>>,
                                                 <<HeaderKeys.pass_host, p>>>>))>>>>) :
                x \in Optional({JsonBoolean(TRUE), JsonBoolean(FALSE)}),
                p \in Optional({JsonBoolean(TRUE), JsonBoolean(FALSE)})}
    /\ portTLSMap \in [{80} -> BOOLEAN]
    /\ roundRobinCounters = EmptyMap
    /\ alive = TRUE
    /\ reqs = <<>>
    /\ query = NoQuery
    /\ answer = NoRule
    /\ document = NoDocument
    /\ loaded = TRUE
    /\ validation = NoValidation
    /\ cluster = NoCluster
    /\ unreadable = {}
    /\ servers = DOMAIN portTLSMap

\* The client at ::1 sends no X-Forwarded-For, an empty one, or one that
\* names ::2.
HeaderNext ==
    \E port \in Listening, hostHeader \in {HostH1, HostH1Port, <<>>, NoHost},
       url \in {PathA, PathB},
       forwardedFor \in {NoLine, <<>>, <<":", ":", "2">>} :
        Arrival(port, hostHeader, url, forwardedFor, <<":", ":", "1">>)

HeaderSpec == HeaderInit /\ [][HeaderNext]_vars

-----------------------------------------------------------------------------
(* The router alone: getRule called on any table with any arguments *)

RouterTables ==
    {Entries(<<<<80, p80>>, <<81, p81>>>>) :
        p80 \in Optional(HostMaps(
                    PathMaps(ProxyRule(<<"http://a1">>), ProxyRule(<<"http://b1">>)),
                    PathMaps(ProxyRule(<<"http://c1">>), ProxyRule(<<"http://d1">>)))),
        p81 \in Optional({<<<<HostH1, <<<<PathA, RedirectRule(ToR, NoPrefix, 301)>>,
                                        <<Wild, RedirectRule(ToR, NoPrefix, 302)>>>>>>,
                            <<Wild, <<<<PathA, RewriteRule(ToN)>>,
                                      <<Wild, ProxyRule(<<"http://e1">>)>>>>>>>>})}

QueryPorts == {80, 81, 82}
QueryHosts == {HostH1, HostH2, Wild}
QueryPaths == {PathA, PathB, Wild}

RouterInit ==
    /\ table \in RouterTables
    /\ query \in [port : QueryPorts, hostname : QueryHosts, path : QueryPaths,
                  asked : {FALSE}]
    /\ answer = NoRule
    /\ roundRobinCounters = EmptyMap
    /\ alive = TRUE
    /\ reqs = <<>>
    /\ document = NoDocument
    /\ loaded = TRUE
    /\ validation = NoValidation
    /\ defaultsConfig = NoDocument
    /\ portTLSMap = EmptyMap
    /\ cluster = NoCluster
    /\ unreadable = {}
    /\ servers = DOMAIN portTLSMap

\* config.getRule(port, hostname, path)
Resolve ==
    /\ ~query.asked
    /\ answer' = getRule(query.port, query.hostname, query.path)
    /\ query' = [query EXCEPT !.asked = TRUE]
    /\ UNCHANGED <<table, roundRobinCounters, alive, reqs, document, loaded,
                   validation, defaultsConfig, portTLSMap, cluster, unreadable, servers>>

RouterNext == Resolve

RouterSpec == RouterInit /\ [][RouterNext]_vars

-----------------------------------------------------------------------------
(* Loader: ProxyConfig.fromRawConfig on a parsed JSON document.  A JSON       *)
(* object is the sequence of its <<key, value>> entries in the order of       *)
(* Object.entries; keys are sequences of characters.  A string value is a    *)
(* JsonString when the program takes it whole (an origin URL, a rule type)   *)
(* and a JsonText when it is a path the dispatcher cuts and concatenates.    *)

IsDigit(c) == \E d \in 0..9 : Digit(d) = c

DigitValue(c) == CHOOSE d \in 0..9 : Digit(d) = c

NaN == [json |-> "NaN"]

\* parseInt(portStr, 10) on a key without leading blanks: an optional sign,
\* then the number written by the leading digits, NaN when there is none.
RECURSIVE ParseDigits(_, _)
ParseDigits(chars, acc) ==
    IF chars = <<>> \/ ~IsDigit(Head(chars)) THEN acc
    ELSE ParseDigits(Tail(chars), acc * 10 + DigitValue(Head(chars)))

parseInt(portStr) ==
    LET signed == portStr # <<>> /\ Head(portStr) \in {"-", "+"}
        digits == IF signed THEN Tail(portStr) ELSE portStr
    IN  IF digits = <<>> \/ ~IsDigit(Head(digits)) THEN NaN
        ELSE IF signed /\ Head(portStr) = "-"
        THEN JsonNumber(0 - ParseDigits(digits, 0))
        ELSE JsonNumber(ParseDigits(digits, 0))

\* parsePort(portStr): the port, or NaN when parsePort throws.
parsePort(portStr) ==
    LET port == parseInt(portStr) IN
    IF port = NaN THEN NaN
    ELSE IF port.number < 1 \/ port.number > 65535 THEN NaN
    ELSE port

\* normalizeRule(ruleConfig): the standardized rule, NoRule for undefined.
normalizeRule(ruleConfig) ==
    LET type == Field(ruleConfig, KeyType)
        to == Field(ruleConfig, KeyTo)
    IN  IF ~Truthy(type) \/ type = JsonString("proxy")
        THEN ProxyRule(IF to.json = "array" THEN to.items ELSE <<StringOf(to)>>)
        ELSE IF type = JsonString("redirect")
        THEN RedirectRule(to.chars,
                          IF Field(ruleConfig, KeyStripPrefix).json = "undefined"
                          THEN NoPrefix ELSE Field(ruleConfig, KeyStripPrefix).chars,
                          IF Field(ruleConfig, KeyStatus).json = "undefined"
                          THEN 302 ELSE Field(ruleConfig, KeyStatus).number)
        ELSE IF type = JsonString("rewrite")
        THEN RewriteRule(to.chars)
        ELSE NoRule

\* The for loop of parseHostConfig over entries, from the path-map so far.
RECURSIVE parsePathMappings(_, _)
parsePathMappings(entries, pathMap) ==
    IF entries = <<>> THEN pathMap
    ELSE
        LET path == Head(entries)[1]
            pathValue == Head(entries)[2]
            rule == IF IsString(pathValue) THEN ProxyRule(<<StringOf(pathValue)>>)
                    ELSE normalizeRule(pathValue)
        IN  parsePathMappings(Tail(entries),
                              IF rule # NoRule THEN MapSet(pathMap, path, rule)
                              ELSE pathMap)

\* parseHostConfig(hostname, hostValue)
parseHostConfig(hostname, hostValue) ==
    IF IsString(hostValue)
    THEN MapSet(EmptyMap, Wild, ProxyRule(<<StringOf(hostValue)>>))
    ELSE parsePathMappings(hostValue.entries, EmptyMap)

\* The for loop of fromRawConfig over the entries of `hosts`.
RECURSIVE parseHosts(_, _)
parseHosts(entries, hostMap) ==
    IF entries = <<>> THEN hostMap
    ELSE parseHosts(Tail(entries),
                    MapSet(hostMap, Head(entries)[1],
                           parseHostConfig(Head(entries)[1], Head(entries)[2])))

\* The entries of a port object that are no `tls`.
WithoutTls(entries) == SelectSeq(entries, LAMBDA e : e[1] # KeyTls)

\* The loop body with `tls` left among the path mappings of a port object.
parsePortEntryKeepsTls(key, portConfig, configMap) ==
    IF key = KeyDefaults THEN configMap
    ELSE
        LET port == parsePort(key) IN
        IF port = NaN THEN configMap
        ELSE IF IsString(portConfig)
        THEN MapSet(configMap, port.number,
                    MapSet(EmptyMap, Wild,
                           MapSet(EmptyMap, Wild, ProxyRule(<<StringOf(portConfig)>>))))
        ELSE IF In(KeyHosts, portConfig)
        THEN MapSet(configMap, port.number,
                    parseHosts(Field(portConfig, KeyHosts).entries, EmptyMap))
        ELSE MapSet(configMap, port.number,
                    MapSet(EmptyMap, Wild, parseHostConfig(Wild, portConfig)))

\* The body of the for loop of fromRawConfig: one top-level entry.
parsePortEntry(key, portConfig, configMap) ==
    IF key = KeyDefaults THEN configMap
    ELSE
        LET port == parsePort(key) IN
        IF port = NaN THEN configMap
        ELSE IF IsString(portConfig)
        THEN MapSet(configMap, port.number,
                    MapSet(EmptyMap, Wild,
                           MapSet(EmptyMap, Wild, ProxyRule(<<StringOf(portConfig)>>))))
        ELSE IF In(KeyHosts, portConfig)
        THEN MapSet(configMap, port.number,
                    parseHosts(Field(portConfig, KeyHosts).entries, EmptyMap))
        ELSE MapSet(configMap, port.number,
                    MapSet(EmptyMap, Wild,
                           parseHostConfig(Wild, JsonObject(WithoutTls(portConfig.entries)))))

RECURSIVE parsePorts(_, _)
parsePorts(entries, configMap) ==
    IF entries = <<>> THEN configMap
    ELSE parsePorts(Tail(entries),
                    parsePortEntry(Head(entries)[1], Head(entries)[2], configMap))

\* ProxyConfig.fromRawConfig(rawConfig).getMap()
fromRawConfig(rawConfig) == parsePorts(rawConfig.entries, EmptyMap)

-----------------------------------------------------------------------------
(* Documents, and the loader run on them.  Entries are in the order of       *)
(* Object.entries: keys that are array indices ("0", "80") first, ascending, *)
(* then the other keys as written.                                          *)

Key0 == <<"0">>
Key80 == <<"8", "0">>

TlsObject ==
    JsonObject(<<<<KeyCert, JsonString("cert.pem")>>, <<KeyKey, JsonString("key.pem")>>>>)

\* What a path slot may hold: a bare URL, rule objects of every type, and
\* rule objects with no `to`, an empty `to` or an unknown type.
SlotConfigs ==
    {JsonString("http://a1"),
     JsonObject(<<<<KeyTo, JsonArray(<<"http://a1", "http://a2">>)>>>>),
     JsonObject(<<<<KeyType, JsonString("proxy")>>, <<KeyTo, JsonArray(<<>>)>>>>),
     JsonObject(<<<<KeyTo, JsonString("")>>>>),
     JsonObject(<<<<KeyType, JsonString("proxy")>>>>),
     JsonObject(<<<<KeyType, JsonString("bogus")>>, <<KeyTo, JsonString("http://a1")>>>>),
     JsonObject(<<<<KeyType, JsonString("redirect")>>, <<KeyTo, JsonText(ToR)>>,
                  <<KeyStatus, JsonNumber(301)>>>>),
     JsonObject(<<<<KeyType, JsonString("rewrite")>>, <<KeyTo, JsonText(ToN)>>>>),
     JsonObject(<<<<KeyType, JsonString("rewrite")>>, <<KeyTo, JsonText(<<>>)>>>>)}

\* Objects of path-keys, with or without a `tls` key.
PathObjects ==
    {JsonObject(Entries(<<<<KeyTls, t>>, <<PathA, a>>, <<Wild, w>>>>)) :
        t \in Optional({TlsObject}),
        a \in Optional(SlotConfigs),
        w \in Optional({JsonString("http://d1")})}

HostConfigs ==
    {JsonString("http://e1"), JsonObject(<<<<KeyHosts, JsonString("http://c1")>>>>)}
        \cup PathObjects

\* Port objects with a `hosts` key: hosts h1, "*" and a host named tls.
HostsObjects ==
    {JsonObject(Entries(<<
        <<KeyTls, t>>,
        <<KeyHosts, Present(JsonObject(Entries(<<<<HostH1, h>>, <<Wild, w>>,
                                                 <<KeyTls, x>>>>)))>>>>)) :
        t \in Optional({TlsObject}),
        h \in Optional(HostConfigs),
        w \in Optional({JsonString("http://d1")}),
        x \in Optional({JsonString("http://c1")})}

PortConfigs == {JsonString("http://e1")} \cup PathObjects \cup HostsObjects

Documents ==
    {JsonObject(Entries(<<<<Key0, z>>, <<Key80, p>>, <<KeyDefaults, d>>>>)) :
        z \in Optional({JsonString("http://b1")}),
        p \in Optional(PortConfigs),
        d \in Optional({JsonObject(<<>>)})}

LoaderInit ==
    /\ document \in Documents
    /\ loaded = FALSE
    /\ table = EmptyMap
    /\ query \in [port : {80}, hostname : {HostH1, HostH2}, path : {PathA, PathB},
                  asked : {FALSE}]
    /\ answer = NoRule
    /\ roundRobinCounters = EmptyMap
    /\ alive = TRUE
    /\ reqs = <<>>
    /\ validation = NoValidation
    /\ defaultsConfig = NoDocument
    /\ portTLSMap = EmptyMap
    /\ cluster = NoCluster
    /\ unreadable = {}
    /\ servers = DOMAIN portTLSMap

\* ProxyConfig.loadFromString: the table of the document.
Load ==
    /\ ~loaded
    /\ table' = fromRawConfig(document)
    /\ loaded' = TRUE
    /\ UNCHANGED <<roundRobinCounters, alive, reqs, query, answer, document,
                   validation, defaultsConfig, portTLSMap, cluster, unreadable, servers>>

LoaderNext ==
    \/ Load
    \/ loaded /\ Resolve

LoaderSpec == LoaderInit /\ [][LoaderNext]_vars

-----------------------------------------------------------------------------
(* ProxyConfig.loadFromString and the start of the server on what it         *)
(* returns.                                                                  *)

\* The content of a file JSON.parse rejects.
JsonInvalid == [json |-> "syntax error"]

\* ProxyConfig.loadFromString(configContent): it throws, or returns the table.
\* fromRawConfig throws a TypeError at 'tls' in portConfig when the value of a
\* port is null.
loadFromString(content) ==
    LET fromRawConfigThrows ==
            \E n \in 1..Len(content.entries) :
                /\ content.entries[n][1] # KeyDefaults
                /\ parsePort(content.entries[n][1]) # NaN
                /\ content.entries[n][2] = JsonNull
    IN  IF content = JsonInvalid \/ fromRawConfigThrows
        THEN [threw |-> TRUE, configMap |-> EmptyMap]
        ELSE [threw |-> FALSE, configMap |-> fromRawConfig(content)]

\* The keys of the tlsConfigMap of fromRawConfig(rawConfig): the ports whose
\* value is an object with a truthy `tls`.
tlsConfigMap(rawConfig) ==
    {parsePort(rawConfig.entries[n][1]).number :
        n \in {m \in 1..Len(rawConfig.entries) :
                /\ rawConfig.entries[m][1] # KeyDefaults
                /\ parsePort(rawConfig.entries[m][1]) # NaN
                /\ rawConfig.entries[m][2].json = "object"
                /\ Truthy(Field(rawConfig.entries[m][2], KeyTls))}}

\* startServer with a plain HTTP server on a port whose certificate files
\* cannot be read.
StartServerPlainOnFailure ==
    /\ alive
    /\ ~loaded
    /\ LET config == loadFromString(document) IN
        IF config.threw
        THEN /\ alive' = FALSE
             /\ UNCHANGED <<table, loaded, defaultsConfig, portTLSMap, servers>>
        ELSE /\ alive' = alive
             /\ table' = config.configMap
             /\ loaded' = TRUE
             /\ defaultsConfig' = Field(document, KeyDefaults)
             /\ portTLSMap' = [port \in MapKeys(config.configMap) |->
                                    port \in tlsConfigMap(document) \ unreadable]
             /\ servers' = DOMAIN portTLSMap'
    /\ UNCHANGED <<roundRobinCounters, reqs, query, answer, document, validation, cluster,
                   unreadable>>

\* startServer with a catch that leaves the loop: no server on the ports
\* after one whose certificate files cannot be read.
StartServerStopsAtFailure ==
    /\ alive
    /\ ~loaded
    /\ LET config == loadFromString(document)
           failed == tlsConfigMap(document) \cap unreadable
       IN
        IF config.threw
        THEN /\ alive' = FALSE
             /\ UNCHANGED <<table, loaded, defaultsConfig, portTLSMap, servers>>
        ELSE /\ alive' = alive
             /\ table' = config.configMap
             /\ loaded' = TRUE
             /\ defaultsConfig' = Field(document, KeyDefaults)
             /\ portTLSMap' =
                    [port \in {config.configMap[i][1] : i \in {k \in 1..Len(config.configMap) :
                                    \A j \in 1..k : config.configMap[j][1] \notin failed}}
                        |-> port \in tlsConfigMap(document)]
             /\ servers' = DOMAIN portTLSMap'
    /\ UNCHANGED <<roundRobinCounters, reqs, query, answer, document, validation, cluster,
                   unreadable>>

\* startServer: the document is loaded and startWorkers goes through the
\* ports of the table: an HTTPS server on a port of the tlsConfigMap, none
\* when its certificate files cannot be read (the catch continues with the
\* next port), an HTTP server on any other port.  When loadFromString throws,
\* the process exits.
StartServer ==
    /\ alive
    /\ ~loaded
    /\ LET config == loadFromString(document) IN
        IF config.threw
        THEN /\ alive' = FALSE
             /\ UNCHANGED <<table, loaded, defaultsConfig, portTLSMap, servers>>
        ELSE /\ alive' = alive
             /\ table' = config.configMap
             /\ loaded' = TRUE
             /\ defaultsConfig' = Field(document, KeyDefaults)
             /\ portTLSMap' =
                    [port \in MapKeys(config.configMap) \ (tlsConfigMap(document) \cap unreadable)
                        |-> port \in tlsConfigMap(document)]
             /\ servers' = DOMAIN portTLSMap'
    /\ UNCHANGED <<roundRobinCounters, reqs, query, answer, document, validation, cluster,
                   unreadable>>

-----------------------------------------------------------------------------
(* ConfigValidator.  A diagnostic keeps its code, its path and its severity;  *)
(* a path is the string the template literal builds.                         *)

Diagnostic(code, path, severity) == [code |-> code, path |-> path, severity |-> severity]

RECURSIVE Flatten(_)
Flatten(seqs) == IF seqs = <<>> THEN <<>> ELSE Head(seqs) \o Flatten(Tail(seqs))

\* validatePorts(rawConfig)
validatePorts(rawConfig) ==
    Flatten([n \in 1..Len(rawConfig.entries) |->
        LET portStr == rawConfig.entries[n][1]
            port == parseInt(portStr)
        IN  IF portStr = KeyDefaults THEN <<>>
            ELSE IF port = NaN THEN <<Diagnostic("INVALID_PORT", portStr, "error")>>
            ELSE IF port.number < 1 \/ port.number > 65535
            THEN <<Diagnostic("INVALID_PORT", portStr, "error")>>
            ELSE <<>>])

WebPrefixes ==
    {<<"h", "t", "t", "p", ":", "/", "/">>, <<"h", "t", "t", "p", "s", ":", "/", "/">>}

\* to.startsWith('http://') || to.startsWith('https://')
StartsWithHttp(to) ==
    IF "string" \in DOMAIN to
    THEN to.string \in ValidOrigins
    ELSE \E prefix \in WebPrefixes : StartsWith(to.chars, prefix)

\* validateTargetUrl(urlString, path): the errors it returns, none for null.
\* new URL(urlString) does not throw for an origin of the model and for text
\* that goes on after http:// or https://; a URL of protocol http: or https:
\* that parses has a hostname.
validateTargetUrl(urlString, path) ==
    LET parses == IF "string" \in DOMAIN urlString
                  THEN IsValidURL(urlString.string)
                  ELSE StartsWithHttp(urlString) /\ urlString.chars \notin WebPrefixes
        web == IF "string" \in DOMAIN urlString
               THEN urlString.string \in ValidOrigins
               ELSE TRUE
    IN  IF ~parses THEN <<Diagnostic("INVALID_URL", path, "error")>>
        ELSE IF ~web THEN <<Diagnostic("INVALID_PROTOCOL", path, "error")>>
        ELSE <<>>

\* rule === '' for a string
IsEmptyString(value) ==
    /\ IsString(value)
    /\ IF "string" \in DOMAIN value THEN value.string = "" ELSE value.chars = <<>>

\* validateRuleUrls(rule, path)
validateRuleUrls(rule, path) ==
    IF IsString(rule)
    THEN IF IsEmptyString(rule) THEN <<>> ELSE validateTargetUrl(rule, path)
    ELSE IF rule.json # "object" THEN <<>>
    ELSE IF ~In(KeyTo, rule) THEN <<>>
    ELSE
        LET to == Field(rule, KeyTo)
            type == Field(rule, KeyType)
        IN  IF IsString(to)
            THEN IF IsEmptyString(to) THEN <<>>
                 ELSE IF type = JsonString("redirect") /\ ~StartsWithHttp(to)
                 THEN <<>>
                 ELSE IF type = JsonString("rewrite") THEN <<>>
                 ELSE validateTargetUrl(to, path \o <<".">> \o KeyTo)
            ELSE IF to.json = "array"
            THEN Flatten([i \in 1..Len(to.items) |->
                    validateTargetUrl(JsonString(to.items[i]),
                                      path \o <<".">> \o KeyTo \o <<"[">>
                                           \o DecimalString(i - 1) \o <<"]">>)])
            ELSE <<>>

\* 'hosts' in portConfig && portConfig.hosts
HasHosts(portConfig) == In(KeyHosts, portConfig) /\ Truthy(Field(portConfig, KeyHosts))

\* validateUrls(rawConfig)
validateUrls(rawConfig) ==
    Flatten([n \in 1..Len(rawConfig.entries) |->
        LET portStr == rawConfig.entries[n][1]
            portConfig == rawConfig.entries[n][2]
        IN  IF portStr = KeyDefaults \/ ~Truthy(portConfig) THEN <<>>
            ELSE IF IsString(portConfig) THEN validateTargetUrl(portConfig, portStr)
            ELSE IF HasHosts(portConfig)
            THEN LET hosts == Field(portConfig, KeyHosts).entries IN
                 Flatten([h \in 1..Len(hosts) |->
                    LET hostname == hosts[h][1]
                        hostConfig == hosts[h][2]
                        at == portStr \o <<".">> \o KeyHosts \o <<".">> \o hostname
                    IN  IF IsString(hostConfig) THEN validateTargetUrl(hostConfig, at)
                        ELSE Flatten([k \in 1..Len(hostConfig.entries) |->
                                validateRuleUrls(hostConfig.entries[k][2],
                                                 at \o <<".">> \o hostConfig.entries[k][1])])])
            ELSE LET paths == WithoutTls(portConfig.entries) IN
                 Flatten([k \in 1..Len(paths) |->
                    validateRuleUrls(paths[k][2], portStr \o <<".">> \o paths[k][1])])])

\* The loops validateRuleTypes, validateRequiredFields and
\* validateRedirectStatus share: every rule of the document in the order the
\* loops visit it, with the path of its slot, whether it is under `hosts`, and
\* the keys of the slot ("*" for the host of a port object without `hosts`).
RuleSlots(rawConfig) ==
    LET PathSlots(entries, portStr, hostname, prefix, underHosts) ==
            [k \in 1..Len(entries) |->
                [rule |-> entries[k][2], path |-> prefix \o <<".">> \o entries[k][1],
                 hosts |-> underHosts,
                 portStr |-> portStr, hostname |-> hostname, pathKey |-> entries[k][1]]]
        PortSlots(portStr, portConfig) ==
            IF HasHosts(portConfig)
            THEN LET hosts == Field(portConfig, KeyHosts).entries IN
                 Flatten([h \in 1..Len(hosts) |->
                    IF IsString(hosts[h][2]) THEN <<>>
                    ELSE PathSlots(hosts[h][2].entries, portStr, hosts[h][1],
                                   portStr \o <<".">> \o KeyHosts \o <<".">> \o hosts[h][1],
                                   TRUE)])
            ELSE PathSlots(WithoutTls(portConfig.entries), portStr, Wild, portStr, FALSE)
    IN  Flatten([n \in 1..Len(rawConfig.entries) |->
            LET portStr == rawConfig.entries[n][1]
                portConfig == rawConfig.entries[n][2]
            IN  IF portStr = KeyDefaults \/ ~Truthy(portConfig) \/ IsString(portConfig)
                THEN <<>>
                ELSE PortSlots(portStr, portConfig)])

\* The values of RuleType.
validTypes == {JsonString("proxy"), JsonString("redirect"), JsonString("rewrite")}

\* validateRuleTypes(rawConfig): under a port object without `hosts` the test
\* of the type is made only for a rule that has a `to`.
validateRuleTypes(rawConfig) ==
    LET slots == RuleSlots(rawConfig) IN
    Flatten([k \in 1..Len(slots) |->
        LET rule == slots[k].rule IN
        IF /\ rule.json = "object"
           /\ In(KeyType, rule)
           /\ slots[k].hosts \/ In(KeyTo, rule)
           /\ Field(rule, KeyType) \notin validTypes
        THEN <<Diagnostic("INVALID_RULE_TYPE", slots[k].path \o <<".">> \o KeyType, "error")>>
        ELSE <<>>])

\* validateRuleRequiredFields(rule, path)
validateRuleRequiredFields(rule, path) ==
    IF IsString(rule) THEN <<>>
    ELSE IF rule.json # "object" THEN <<>>
    ELSE IF ~In(KeyTo, rule)
    THEN <<Diagnostic("MISSING_REQUIRED_FIELD", path, "error")>>
    ELSE IF \/ IsEmptyString(Field(rule, KeyTo))
            \/ Field(rule, KeyTo).json = "array" /\ Len(Field(rule, KeyTo).items) = 0
    THEN <<Diagnostic("EMPTY_TARGET", path \o <<".">> \o KeyTo, "error")>>
    ELSE <<>>

\* validateRequiredFields(rawConfig)
validateRequiredFields(rawConfig) ==
    LET slots == RuleSlots(rawConfig) IN
    Flatten([k \in 1..Len(slots) |->
        validateRuleRequiredFields(slots[k].rule, slots[k].path)])

\* validateRedirectStatus(rawConfig)
validateRedirectStatus(rawConfig) ==
    LET slots == RuleSlots(rawConfig) IN
    Flatten([k \in 1..Len(slots) |->
        LET rule == slots[k].rule IN
        IF /\ rule.json = "object"
           /\ In(KeyType, rule)
           /\ Field(rule, KeyType) = JsonString("redirect")
           /\ In(KeyStatus, rule)
           /\ Field(rule, KeyStatus).number \notin {301, 302, 307, 308}
        THEN <<Diagnostic("INVALID_REDIRECT_STATUS", slots[k].path \o <<".">> \o KeyStatus,
                          "warning")>>
        ELSE <<>>])

\* detectShadowedRules(rawConfig)
detectShadowedRules(rawConfig) ==
    LET \* keys.indexOf('*') is neither -1 nor the last index
        WildcardNotLast(entries) ==
            \E k \in 1..Len(entries) : entries[k][1] = Wild /\ k < Len(entries)
    IN
    Flatten([n \in 1..Len(rawConfig.entries) |->
        LET portStr == rawConfig.entries[n][1]
            portConfig == rawConfig.entries[n][2]
        IN  IF portStr = KeyDefaults \/ ~Truthy(portConfig) \/ IsString(portConfig)
            THEN <<>>
            ELSE IF HasHosts(portConfig)
            THEN LET hosts == Field(portConfig, KeyHosts).entries IN
                 (IF WildcardNotLast(hosts)
                  THEN <<Diagnostic("SHADOWED_HOST",
                                    portStr \o <<".">> \o KeyHosts \o <<".">> \o Wild, "warning")>>
                  ELSE <<>>)
                 \o Flatten([h \in 1..Len(hosts) |->
                        IF ~IsString(hosts[h][2]) /\ WildcardNotLast(hosts[h][2].entries)
                        THEN <<Diagnostic("SHADOWED_PATH",
                                          portStr \o <<".">> \o KeyHosts \o <<".">> \o hosts[h][1]
                                                  \o <<".">> \o Wild, "warning")>>
                        ELSE <<>>])
            ELSE IF WildcardNotLast(portConfig.entries)
            THEN <<Diagnostic("SHADOWED_PATH", portStr \o <<".">> \o Wild, "warning")>>
            ELSE <<>>])

\* validate with the failure of loadFromString swallowed: no CONFIG_LOAD_FAILED.
validateSwallowsLoadFailure(content) ==
    IF content = JsonInvalid
    THEN [done |-> TRUE, valid |-> FALSE,
          errors |-> <<Diagnostic("INVALID_JSON", <<"$">>, "error")>>,
          warnings |-> <<>>, config |-> [defined |-> FALSE, configMap |-> EmptyMap]]
    ELSE
        LET found == validatePorts(content) \o validateUrls(content)
                        \o validateRuleTypes(content) \o validateRequiredFields(content)
            warnings == validateRedirectStatus(content) \o detectShadowedRules(content)
                        \o (IF \A n \in 1..Len(content.entries) :
                                    content.entries[n][1] = KeyDefaults
                            THEN <<Diagnostic("EMPTY_CONFIG", <<"$">>, "warning")>>
                            ELSE <<>>)
            config == loadFromString(content)
            errors == found
        IN  [done |-> TRUE, valid |-> Len(errors) = 0, errors |-> errors,
             warnings |-> warnings,
             config |-> IF found = <<>> /\ ~config.threw
                        THEN [defined |-> TRUE, configMap |-> config.configMap]
                        ELSE [defined |-> FALSE, configMap |-> EmptyMap]]

\* validate(configContent): the ValidationResult.
validate(content) ==
    IF content = JsonInvalid
    THEN [done |-> TRUE, valid |-> FALSE,
          errors |-> <<Diagnostic("INVALID_JSON", <<"$">>, "error")>>,
          warnings |-> <<>>, config |-> [defined |-> FALSE, configMap |-> EmptyMap]]
    ELSE
        LET found == validatePorts(content) \o validateUrls(content)
                        \o validateRuleTypes(content) \o validateRequiredFields(content)
            warnings == validateRedirectStatus(content) \o detectShadowedRules(content)
                        \o (IF \A n \in 1..Len(content.entries) :
                                    content.entries[n][1] = KeyDefaults
                            THEN <<Diagnostic("EMPTY_CONFIG", <<"$">>, "warning")>>
                            ELSE <<>>)
            config == loadFromString(content)
            errors == IF found = <<>> /\ config.threw
                      THEN <<Diagnostic("CONFIG_LOAD_FAILED", <<"$">>, "error")>>
                      ELSE found
        IN  [done |-> TRUE, valid |-> Len(errors) = 0, errors |-> errors,
             warnings |-> warnings,
             config |-> IF found = <<>> /\ ~config.threw
                        THEN [defined |-> TRUE, configMap |-> config.configMap]
                        ELSE [defined |-> FALSE, configMap |-> EmptyMap]]

\* The validate command: the validator is run on the document.
Validate ==
    /\ ~validation.done
    /\ validation' = validate(document)
    /\ UNCHANGED <<table, roundRobinCounters, alive, reqs, query, answer, document, loaded,
                   defaultsConfig, portTLSMap, cluster, unreadable, servers>>

-----------------------------------------------------------------------------
(* The configuration layer on documents of every kind: port keys that are    *)
(* and are not port numbers, rules of every type under both shapes of a port  *)
(* object, null, and content that is not JSON.  The document is validated,   *)
(* the server is started on it, and a first request arrives.                 *)

ConfigDocuments ==
    LET Key80abc == <<"8", "0", "a", "b", "c">>
        PortKeys ==
            {Key0, <<"1">>, Key80, <<"6", "5", "5", "3", "5">>, <<"6", "5", "5", "3", "6">>,
             Key80abc, <<"8", "0", ".", "5">>, <<"a", "b", "c">>, <<"-", "1">>}
        PortKeyDocuments ==
            {JsonObject(<<<<key, JsonString("http://e1")>>>>) : key \in PortKeys}
                \cup {JsonObject(<<<<Key80, JsonString("http://a1")>>,
                                   <<Key80abc, JsonString("http://b1")>>>>)}
        \* What a path slot may hold, beyond SlotConfigs: targets that are no
        \* URL, no web URL or empty, types that are unknown or empty, with and
        \* without a `to`, a rewrite and a redirect to a path without its
        \* slash, a redirect of an unusual status.
        RuleConfigs ==
            SlotConfigs \cup
            {JsonString("backend"),
             JsonString("ftp://files"),
             JsonString(""),
             JsonObject(<<<<KeyType, JsonString("bogus")>>>>),
             JsonObject(<<<<KeyType, JsonString("")>>, <<KeyTo, JsonString("http://a1")>>>>),
             JsonObject(<<<<KeyType, JsonString("rewrite")>>, <<KeyTo, JsonText(<<"n">>)>>>>),
             JsonObject(<<<<KeyType, JsonString("redirect")>>, <<KeyTo, JsonText(<<"n">>)>>>>),
             JsonObject(<<<<KeyType, JsonString("redirect")>>, <<KeyTo, JsonText(ToR)>>,
                          <<KeyStatus, JsonNumber(1000)>>>>)}
        RuleDocuments ==
            {JsonObject(<<<<Key80, JsonObject(<<<<PathA, rule>>>>)>>>>) : rule \in RuleConfigs}
                \cup {JsonObject(<<<<Key80, JsonObject(<<<<KeyHosts,
                            JsonObject(<<<<HostH1, JsonObject(<<<<PathA, rule>>>>)>>>>)>>>>)>>>>) :
                        rule \in RuleConfigs}
        OtherDocuments ==
            {JsonInvalid,
             JsonObject(<<>>),
             JsonObject(<<<<Key80, JsonString("")>>>>),
             JsonObject(<<<<Key80, JsonNull>>>>),
             JsonObject(<<<<Key0, JsonNull>>>>),
             JsonObject(<<<<Key80, JsonObject(<<<<Wild, JsonString("http://d1")>>,
                                               <<PathA, JsonString("http://a1")>>>>)>>>>),
             JsonObject(<<<<Key80, JsonObject(<<<<KeyHosts,
                    JsonObject(<<<<Wild, JsonString("http://d1")>>,
                                 <<HostH1, JsonString("http://a1")>>>>)>>>>)>>>>),
             JsonObject(<<<<Key80, JsonObject(<<<<KeyTls, TlsObject>>,
                                               <<Wild, JsonString("http://d1")>>>>)>>>>)}
        \* Port objects and host objects with "*" before and after their other
        \* keys, and "*" followed by `tls` only.
        OrderDocuments ==
            {JsonObject(<<<<Key80, JsonObject(<<<<PathA, JsonString("http://a1")>>,
                                               <<Wild, JsonString("http://d1")>>>>)>>>>),
             JsonObject(<<<<Key80, JsonObject(<<<<Wild, JsonString("http://d1")>>,
                                               <<KeyTls, TlsObject>>>>)>>>>),
             JsonObject(<<<<Key80, JsonObject(<<<<KeyHosts,
                    JsonObject(<<<<HostH1, JsonString("http://a1")>>,
                                 <<Wild, JsonString("http://d1")>>>>)>>>>)>>>>)}
            \cup
            {JsonObject(<<<<Key80, JsonObject(<<<<KeyHosts,
                    JsonObject(<<<<HostH1, JsonObject(paths)>>>>)>>>>)>>>>) :
                paths \in {<<<<Wild, JsonString("http://d1")>>, <<PathA, JsonString("http://a1")>>>>,
                           <<<<PathA, JsonString("http://a1")>>, <<Wild, JsonString("http://d1")>>>>,
                           <<<<Wild, JsonString("http://d1")>>>>}}
        \* Ports with and without `tls`: a `tls` that is null, `tls` beside
        \* `hosts`, and a TLS port beside a plain one.
        TlsDocuments ==
            {JsonObject(<<<<Key80, JsonObject(<<<<KeyTls, JsonNull>>,
                                               <<Wild, JsonString("http://d1")>>>>)>>>>),
             JsonObject(<<<<Key80, JsonObject(<<<<KeyTls, TlsObject>>,
                    <<KeyHosts, JsonObject(<<<<HostH1, JsonString("http://a1")>>>>)>>>>)>>>>),
             JsonObject(<<<<Key80, JsonObject(<<<<KeyTls, TlsObject>>,
                                               <<Wild, JsonString("http://d1")>>>>)>>,
                          <<<<"8", "1">>, JsonString("http://e1")>>>>),
             JsonObject(<<<<Key80, JsonObject(<<<<KeyTls, TlsObject>>,
                                               <<Wild, JsonString("http://d1")>>>>)>>,
                          <<<<"8", "1">>, JsonObject(<<<<KeyTls, TlsObject>>,
                                                      <<Wild, JsonString("http://e1")>>>>)>>>>)}
    IN  PortKeyDocuments \cup RuleDocuments \cup OtherDocuments \cup OrderDocuments
            \cup TlsDocuments

ConfigInit ==
    /\ document \in ConfigDocuments
    /\ loaded = FALSE
    /\ table = EmptyMap
    /\ query = NoQuery
    /\ answer = NoRule
    /\ roundRobinCounters = EmptyMap
    /\ alive = TRUE
    /\ reqs = <<>>
    /\ validation = NoValidation
    /\ defaultsConfig = NoDocument
    /\ portTLSMap = EmptyMap
    /\ cluster = NoCluster
    /\ unreadable \in SUBSET {80, 81}
    /\ servers = DOMAIN portTLSMap

ConfigNext ==
    \/ Validate
    \/ StartServer
    \/ \E port \in Listening : FirstRequest(port, HostH1, PathA)

ConfigSpec == ConfigInit /\ [][ConfigNext]_vars

-----------------------------------------------------------------------------
(* Cluster mode: the primary of ProxyServer.startCluster.  A worker is its    *)
(* cluster id (1, 2, ... in the order of the forks) and whether the primary   *)
(* has killed it; cluster.workers holds the workers that have not exited.    *)

\* startCluster: workerCount workers are forked, the 'exit' and SIGTERM
\* handlers are registered.
StartCluster ==
    /\ ~cluster.started
    /\ cluster' = [started |-> TRUE,
                   workers |-> {[id |-> id, killed |-> FALSE] : id \in 1..WorkerCount},
                   forks |-> WorkerCount, sigterm |-> FALSE]
    /\ UNCHANGED <<table, roundRobinCounters, alive, reqs, query, answer, document, loaded,
                   validation, defaultsConfig, portTLSMap, unreadable, servers>>

\* A worker exits, of itself or of the primary's kill, and the 'exit' handler
\* of the primary runs: it forks.
WorkerExit(worker) ==
    /\ cluster.started
    /\ worker \in cluster.workers
    /\ cluster.forks < MaxForks
    /\ cluster' = [cluster EXCEPT
                    !.workers = (@ \ {worker}) \cup {[id |-> cluster.forks + 1, killed |-> FALSE]},
                    !.forks = @ + 1]
    /\ UNCHANGED <<table, roundRobinCounters, alive, reqs, query, answer, document, loaded,
                   validation, defaultsConfig, portTLSMap, unreadable, servers>>

\* The primary receives SIGTERM: its handler kills every worker of
\* cluster.workers.
Sigterm ==
    /\ cluster.started
    /\ cluster' = [cluster EXCEPT
                    !.workers = {[id |-> w.id, killed |-> TRUE] : w \in @},
                    !.sigterm = TRUE]
    /\ UNCHANGED <<table, roundRobinCounters, alive, reqs, query, answer, document, loaded,
                   validation, defaultsConfig, portTLSMap, unreadable, servers>>

ClusterInit ==
    /\ cluster = NoCluster
    /\ table = EmptyMap
    /\ query = NoQuery
    /\ answer = NoRule
    /\ roundRobinCounters = EmptyMap
    /\ alive = TRUE
    /\ reqs = <<>>
    /\ document = NoDocument
    /\ loaded = TRUE
    /\ validation = NoValidation
    /\ defaultsConfig = NoDocument
    /\ portTLSMap = EmptyMap
    /\ unreadable = {}
    /\ servers = DOMAIN portTLSMap

ClusterNext ==
    \/ StartCluster
    \/ \E worker \in cluster.workers : WorkerExit(worker)
    \/ Sigterm

ClusterSpec == ClusterInit /\ [][ClusterNext]_vars

-----------------------------------------------------------------------------
(* Claims about the router *)

HasHost(port, hostKey) ==
    /\ MapHas(table, port)
    /\ MapHas(MapGet(table, port), hostKey)

HasSlot(port, hostKey, pathKey) ==
    /\ HasHost(port, hostKey)
    /\ MapHas(MapGet(MapGet(table, port), hostKey), pathKey)

RulesOfHost(port, hostKey) ==
    LET pathMap == MapGet(MapGet(table, port), hostKey)
    IN  {pathMap[i][2] : i \in 1..Len(pathMap)}

-----------------------------------------------------------------------------
(* Claims about the dispatcher *)

Requests == 1..Len(reqs)

\* The requests that went through getNextTarget on a rule with several targets.
Balanced == {i \in Requests : reqs[i].index >= 0}

InFlight == {i \in Requests : reqs[i].pc \in {"upstream", "piping"}}

TargetCount(i) == Len(RuleAt(reqs[i].route).targets)

\* C3: the dispatches to one route with k >= 2 targets select the indices
\* 0, 1, ..., k-1, 0, ... in order: the n-th of them (counting from 0) selects
\* index n mod k.
C3_RoundRobinPerRoute ==
    \A i \in Balanced :
        reqs[i].index =
            Cardinality({j \in Balanced : j < i /\ reqs[j].route = reqs[i].route})
                % TargetCount(i)

\* C4: the cursor a dispatch uses is keyed by the route the router matched,
\* (port, host-key, path-key), not by the request's literal host and URL.
C4_CursorKeyedByRoute ==
    \A i \in Balanced :
        reqs[i].key = CounterKey(reqs[i].route[1], reqs[i].route[2], reqs[i].route[3])

\* C5: a request whose handling is over, and whose client did not disconnect,
\* has received exactly one response; response headers are never written twice.
C5_ExactlyOneResponse ==
    \A i \in Requests :
        /\ reqs[i].writes <= 1
        /\ (reqs[i].pc \in {"done", "threw"} /\ ~reqs[i].clientGone)
            => reqs[i].delivered = 1

\* C6: no error raised while a request is handled takes the process down.
C6_NoTeardown == alive

\* C7: of two requests in flight at once on the same route with k >= 2
\* targets, dispatched one right after the other on that route, the second
\* selected the index following the first's, modulo k.
C7_ConcurrentSuccessive ==
    \A i, j \in Balanced \cap InFlight :
        (/\ i < j
         /\ reqs[i].route = reqs[j].route
         /\ ~\E m \in Balanced : i < m /\ m < j /\ reqs[m].route = reqs[i].route)
        => reqs[j].index = (reqs[i].index + 1) % TargetCount(i)

\* C8: cursors of different routes are independent.  Every cursor is used by
\* the dispatches of one route only, its value counts those dispatches modulo
\* the route's number of targets, and the index a dispatch selects is the
\* number of earlier dispatches with its cursor, modulo the same: traffic to
\* other routes changes neither.
C8_CursorsIndependent ==
    /\ \A n \in 1..Len(roundRobinCounters) :
            LET users == {i \in Balanced : reqs[i].key = roundRobinCounters[n][1]} IN
            \A i \in users :
                /\ \A j \in users : reqs[j].route = reqs[i].route
                /\ roundRobinCounters[n][2] = Cardinality(users) % TargetCount(i)
    /\ \A i \in Balanced :
            reqs[i].index =
                Cardinality({j \in Balanced : j < i /\ reqs[j].key = reqs[i].key})
                    % TargetCount(i)

C8_Witness ==
    \E i, j \in Balanced :
        /\ i < j
        /\ reqs[i].route # reqs[j].route
        /\ reqs[i].index = 0
        /\ reqs[j].index = 0
        /\ MapHas(roundRobinCounters, reqs[i].key)
        /\ MapHas(roundRobinCounters, reqs[j].key)
        /\ MapGet(roundRobinCounters, reqs[i].key) = 1
        /\ MapGet(roundRobinCounters, reqs[j].key) = 1

\* The upstream request of request i is still known.
Forwarded == {i \in Requests : reqs[i].pc \in {"upstream", "piping", "done", "broken"}
                                /\ reqs[i].target # Undefined}

\* The rule a request first resolves to, and U' = rule.to + U for a rewrite.
FirstRule(i) == getRule(reqs[i].port, Hostname(reqs[i].host), reqs[i].url)

Rewritten(i) == FirstRule(i).to \o reqs[i].url

C10_RewriteFollowedOnce ==
    \A i \in Requests :
        /\ reqs[i].resolves <= 2
        /\ (/\ FirstRule(i).type = "rewrite"
            /\ getRule(reqs[i].port, Hostname(reqs[i].host), Rewritten(i)).type = "rewrite")
            => /\ reqs[i].resolves = 2
               /\ reqs[i].via \in {"rewrite-fallback", "rewrite-404"}

\* A "*" rewrite rule that U' resolves to again: the rule points at itself.
C10_Witness ==
    \E i \in Requests :
        /\ FirstRule(i).type = "rewrite"
        /\ getRule(reqs[i].port, Hostname(reqs[i].host), Rewritten(i)) = FirstRule(i)
        /\ reqs[i].resolves = 2
        /\ reqs[i].via = "rewrite-fallback"
        /\ reqs[i].pc = "upstream"

\* The path-map the fallback scan is to look at: the exact host-key's if the
\* port has it, else the "*" host-key's, else none.
ScannedPathMap(i) ==
    LET hostMap == IF MapHas(table, reqs[i].port)
                   THEN MapGet(table, reqs[i].port) ELSE EmptyMap
        hostname == Hostname(reqs[i].host)
    IN  IF MapHas(hostMap, hostname) THEN MapGet(hostMap, hostname)
        ELSE IF MapHas(hostMap, Wild) THEN MapGet(hostMap, Wild)
        ELSE EmptyMap

ProxyRulesIn(pathMap) ==
    {pathMap[n][2] : n \in {m \in 1..Len(pathMap) : pathMap[m][2].type = "proxy"}}

\* The requests whose rule is a RewriteRule and whose U' re-resolves to no
\* ProxyRule.
FallenBack ==
    {i \in Requests :
        /\ FirstRule(i).type = "rewrite"
        /\ getRule(reqs[i].port, Hostname(reqs[i].host), Rewritten(i)).type # "proxy"}

C12_BadGateway ==
    \A i \in Requests :
        reqs[i].failed = "early" =>
            /\ reqs[i].via \in {"proxy", "rewrite-proxy", "rewrite-fallback"}
            /\ reqs[i].status = 502
            /\ reqs[i].contentType = PlainText
            /\ reqs[i].body = "Bad Gateway"
            /\ reqs[i].ended
            /\ reqs[i].writes = 1
            /\ ~reqs[i].clientGone => reqs[i].delivered = 1

C12_Witness ==
    \E i \in Requests :
        /\ reqs[i].failed = "early"
        /\ reqs[i].via = "rewrite-fallback"
        /\ reqs[i].status = 502
        /\ reqs[i].delivered = 1

\* C13: an upstream error after response headers were forwarded terminates
\* the client response, and the status already sent is not rewritten.
C13_AbortAfterHeaders ==
    \A i \in Requests :
        reqs[i].failed = "late" =>
            /\ reqs[i].ended
            /\ reqs[i].writes = 1
            /\ reqs[i].status \in UpstreamStatuses

\* C14: once the client has disconnected, the upstream request of its
\* request is no longer running.
C14_ClientGoneCancelsUpstream ==
    \A i \in Requests :
        reqs[i].clientGone => reqs[i].pc \notin {"upstream", "piping"}

\* C15: a request that resolves to no rule is answered 404 Not Found with a
\* plain-text body, opens no upstream request and leaves every cursor as it
\* was.
C15_NotFound ==
    [][\A port \in Listening, hostHeader \in RequestHosts, url \in RequestUrls :
            (/\ Request(port, hostHeader, url)
             /\ getRule(port, Hostname(hostHeader), url) = NoRule)
            => LET r == reqs'[Len(reqs')] IN
                /\ r.pc = "done"
                /\ r.status = 404
                /\ r.contentType = PlainText
                /\ r.body = "Not Found"
                /\ r.delivered = 1
                /\ r.target = Undefined
                /\ r.upPath = NoString
                /\ r.key = NoKey
                /\ roundRobinCounters' = roundRobinCounters]_vars

C15_Witness ==
    /\ roundRobinCounters # EmptyMap
    /\ \E i \in Requests :
            /\ reqs[i].via = "404"
            /\ reqs[i].pc = "done"
            /\ reqs[i].status = 404
            /\ reqs[i].target = Undefined

-----------------------------------------------------------------------------
(* Claims about the host and the path a request is routed by *)

\* The route under which handleRequest finds the rule of request i.
FirstRoute(i) == MatchedRoute(reqs[i].port, Hostname(reqs[i].host), reqs[i].url)

UpperCase == <<"A", "B", "C", "D", "E", "F", "G", "H", "I", "J", "K", "L", "M",
               "N", "O", "P", "Q", "R", "S", "T", "U", "V", "W", "X", "Y", "Z">>
LowerCase == <<"a", "b", "c", "d", "e", "f", "g", "h", "i", "j", "k", "l", "m",
               "n", "o", "p", "q", "r", "s", "t", "u", "v", "w", "x", "y", "z">>

Lowered(s) ==
    [n \in 1..Len(s) |->
        IF \E k \in 1..Len(UpperCase) : UpperCase[k] = s[n]
        THEN LowerCase[CHOOSE k \in 1..Len(UpperCase) : UpperCase[k] = s[n]]
        ELSE s[n]]

\* The Host header lowercased and cut at its first ':', "*" when absent.
CanonicalHost(hostHeader) ==
    IF hostHeader = NoHost THEN Wild ELSE BeforeColon(Lowered(hostHeader))

\* The URL without its query string.
PathOnly(url) ==
    IF \E n \in 1..Len(url) : url[n] = "?"
    THEN SubSeq(url, 1, (CHOOSE n \in 1..Len(url) :
                            /\ url[n] = "?"
                            /\ \A m \in 1..(n - 1) : url[m] # "?") - 1)
    ELSE url

\* C16: a request is routed by its Host header lowercased and cut at the
\* first ':' ("*" when it has none), so that Host headers differing in letter
\* case or port suffix only are routed alike.
C16_HostLowercasedNoPort ==
    \A i \in Requests :
        FirstRoute(i) = MatchedRoute(reqs[i].port, CanonicalHost(reqs[i].host), reqs[i].url)

\* C17: a request is routed by the path of its URL alone: a query string
\* changes nothing to the rule it resolves to.
C17_QueryIgnored ==
    \A i \in Requests :
        FirstRoute(i) = MatchedRoute(reqs[i].port, Hostname(reqs[i].host),
                                     PathOnly(reqs[i].url))

-----------------------------------------------------------------------------
(* Claims about the loader *)

\* The <<port, host-key, path-key>> of every rule of the table.
Slots ==
    UNION {UNION {{<<table[n][1], table[n][2][m][1], table[n][2][m][2][k][1]>> :
                        k \in 1..Len(table[n][2][m][2])} :
                    m \in 1..Len(table[n][2])} :
            n \in 1..Len(table)}

\* A rule with a `to`: a ProxyRule with at least one target, none of them
\* undefined or empty; a RedirectRule or RewriteRule whose `to` is not empty.
HasTarget(rule) ==
    IF rule.type = "proxy"
    THEN /\ Len(rule.targets) > 0
         /\ \A n \in 1..Len(rule.targets) : rule.targets[n] \notin {"", Undefined}
    ELSE rule.to # <<>>

\* C18: no rule of the loaded table comes from a rule-config without `to` or
\* with an empty `to`, and getRule returns no such rule.
C18_InvalidRulesOmitted ==
    loaded =>
        /\ \A slot \in Slots : HasTarget(RuleAt(slot))
        /\ query.asked /\ answer # NoRule => HasTarget(answer)

\* C19: every port of the loaded table has a host-key whose path-map holds a
\* rule: no port has an empty host-map or only empty path-maps.
C19_NoEmptyPort ==
    loaded =>
        \A n \in 1..Len(table) :
            \E m \in 1..Len(table[n][2]) : table[n][2][m][2] # EmptyMap

ReservedKeys == {KeyHosts, KeyTls}

\* C20: the ports of the loaded table are the ports written by the keys of
\* the document other than __defaults, and neither hosts nor tls is a
\* host-key or a path-key of it.
C20_ReservedKeysLifted ==
    loaded =>
        /\ \A port \in MapKeys(table) :
                \E key \in MapKeys(document.entries) \ {KeyDefaults} :
                    parsePort(key) = JsonNumber(port)
        /\ \A n \in 1..Len(table) :
                \A m \in 1..Len(table[n][2]) :
                    /\ table[n][2][m][1] \notin ReservedKeys
                    /\ \A k \in 1..Len(table[n][2][m][2]) :
                            table[n][2][m][2][k][1] \notin ReservedKeys

-----------------------------------------------------------------------------
(* Claims about the configuration layer *)

\* The key is written in decimal digits only and its number is a port.
IsDecimalPort(key) ==
    /\ key # <<>>
    /\ \A i \in 1..Len(key) : IsDigit(key[i])
    /\ ParseDigits(key, 0) >= 1
    /\ ParseDigits(key, 0) <= 65535

PortKeysOf(rawConfig) ==
    {rawConfig.entries[n][1] : n \in 1..Len(rawConfig.entries)} \ {KeyDefaults}

ErrorAt(code, path) ==
    \E k \in 1..Len(validation.errors) :
        validation.errors[k].code = code /\ validation.errors[k].path = path

\* C21: a top-level key other than __defaults is taken as a port exactly when
\* it is a decimal integer of 1..65535: the loader makes a port of every such
\* key and of no other, and the validator reports INVALID_PORT for exactly the
\* other keys.
C21_PortKeys ==
    /\ loaded =>
        MapKeys(table) =
            {ParseDigits(key, 0) : key \in {k \in PortKeysOf(document) : IsDecimalPort(k)}}
    /\ validation.done /\ document # JsonInvalid =>
        \A key \in PortKeysOf(document) :
            ErrorAt("INVALID_PORT", key) <=> ~IsDecimalPort(key)

\* C22: errors of the configuration layer are fatal to startup: a server that
\* has started, or has taken a request, runs on a document that parses and for
\* which the validator finds no error.
C22_ErrorsAbortStartup ==
    loaded \/ reqs # <<>> => validate(document).errors = <<>>

-----------------------------------------------------------------------------
(* Claims about cluster mode *)

\* C23: the primary forks a replacement for a worker that exits, and once it
\* has received SIGTERM it forks no further worker, so that the workers that
\* were killed are never replaced.
C23_NoForkAfterSigterm ==
    [][cluster.sigterm => cluster.forks' = cluster.forks]_vars

-----------------------------------------------------------------------------
(* Claims about the forwarded headers *)

\* The request was sent upstream.
SentUpstream(r) == r.pc = "upstream"

\* defaults.headers.<key> is true
Setting(key) == Chain(Chain(defaultsConfig, HeaderKeys.headers), key) = JsonBoolean(TRUE)

Proto(port) == IF portTLSMap[port] THEN "https" ELSE "http"

Appended(r) == r.forwardedFor \o <<",", " ">> \o r.clientIp

\* C24 as stated: with x_forwarded true, X-Forwarded-For is the client's value
\* followed by ", " and the client IP, just the client IP when the client sent
\* no X-Forwarded-For; X-Forwarded-Host is the client's Host; X-Forwarded-Proto
\* is https exactly on a TLS listener.
C24_AppendUnlessAbsent ==
    \A i \in 1..Len(reqs) :
        SentUpstream(reqs[i]) /\ Setting(HeaderKeys.x_forwarded) =>
            /\ reqs[i].sent.forwardedFor =
                    IF reqs[i].forwardedFor = NoLine
                    THEN reqs[i].clientIp ELSE Appended(reqs[i])
            /\ reqs[i].host # NoHost => reqs[i].sent.forwardedHost = reqs[i].host
            /\ reqs[i].sent.forwardedProto = Proto(reqs[i].port)

\* C24, amended: with x_forwarded true, X-Forwarded-For is the client's value
\* followed by ", " and the client IP, just the client IP when the client's
\* X-Forwarded-For is absent or empty; X-Forwarded-Host is the client's Host;
\* X-Forwarded-Proto is https exactly on a TLS listener.
C24_ForwardedHeaders ==
    \A i \in 1..Len(reqs) :
        SentUpstream(reqs[i]) /\ Setting(HeaderKeys.x_forwarded) =>
            /\ reqs[i].sent.forwardedFor =
                    IF reqs[i].forwardedFor \in {NoLine, <<>>}
                    THEN reqs[i].clientIp ELSE Appended(reqs[i])
            /\ reqs[i].host # NoHost => reqs[i].sent.forwardedHost = reqs[i].host
            /\ reqs[i].sent.forwardedProto = Proto(reqs[i].port)

\* A request with an X-Forwarded-For and a Host was forwarded from a TLS
\* listener with x_forwarded true.
C24_Witness ==
    \E i \in 1..Len(reqs) :
        /\ SentUpstream(reqs[i])
        /\ Setting(HeaderKeys.x_forwarded)
        /\ reqs[i].forwardedFor = <<":", ":", "2">>
        /\ reqs[i].host = HostH1Port
        /\ portTLSMap[reqs[i].port]
        /\ reqs[i].sent.forwardedFor = <<":", ":", "2", ",", " ", ":", ":", "1">>
        /\ reqs[i].sent.forwardedProto = "https"

\* C25 as stated: with pass_host true the forwarded Host is the client's Host,
\* otherwise the forwarded request has no Host of the client.
C25_HostAsSent ==
    \A i \in 1..Len(reqs) :
        SentUpstream(reqs[i]) =>
            reqs[i].sent.host = IF Setting(HeaderKeys.pass_host) THEN reqs[i].host ELSE NoHost

\* C25, amended: with pass_host true and a Host of the client that is not
\* empty the forwarded Host is the client's Host; otherwise the forwarded
\* request has no Host of the client.
C25_PassHost ==
    \A i \in 1..Len(reqs) :
        SentUpstream(reqs[i]) =>
            reqs[i].sent.host =
                IF Setting(HeaderKeys.pass_host) /\ reqs[i].host # <<>> THEN reqs[i].host ELSE NoHost

\* Under pass_host a Host with a port was forwarded as it came.
C25_Witness ==
    \E i \in 1..Len(reqs) :
        /\ SentUpstream(reqs[i])
        /\ Setting(HeaderKeys.pass_host)
        /\ reqs[i].host = HostH1Port
        /\ reqs[i].sent.host = HostH1Port

\* C26: the forwarded headers are a function of the client's headers, the
\* client IP, the listener and the defaults: two forwarded requests with the
\* same Host, X-Forwarded-For and address carry the same headers whatever
\* their targets and cursors, and the rewrite fallback sends what the proxy
\* path sends.
C26_HeadersPure ==
    \A i, j \in 1..Len(reqs) :
        /\ SentUpstream(reqs[i])
        /\ SentUpstream(reqs[j])
        /\ reqs[i].port = reqs[j].port
        /\ reqs[i].host = reqs[j].host
        /\ reqs[i].forwardedFor = reqs[j].forwardedFor
        /\ reqs[i].clientIp = reqs[j].clientIp
        => reqs[i].sent = reqs[j].sent

\* Two requests with the same headers, one forwarded by the rewrite fallback
\* without a cursor and one by the proxy path with a cursor, under defaults
\* that set both headers.
C26_Witness ==
    \E i, j \in 1..Len(reqs) :
        /\ SentUpstream(reqs[i])
        /\ SentUpstream(reqs[j])
        /\ reqs[i].via = "rewrite-fallback"
        /\ reqs[j].via = "proxy"
        /\ reqs[i].key = NoKey
        /\ reqs[j].key # NoKey
        /\ reqs[i].host = HostH1
        /\ reqs[j].host = HostH1
        /\ reqs[i].forwardedFor = <<":", ":", "2">>
        /\ reqs[j].forwardedFor = <<":", ":", "2">>
        /\ Setting(HeaderKeys.x_forwarded)
        /\ Setting(HeaderKeys.pass_host)
        /\ reqs[i].sent = reqs[j].sent

-----------------------------------------------------------------------------
(* Claims about redirects *)

\* The rule handleRequest resolved for the request.
ResolvedRule(r) == getRule(r.port, Hostname(r.host), r.url)

\* C27: a request resolved to a RedirectRule is answered with the status of
\* the rule, an empty body and a Location that is rule.to followed by what is
\* left of the URL after strip_prefix when strip_prefix is set and the URL
\* starts with it, and rule.to alone otherwise (so rule.to alone when
\* strip_prefix is the whole URL).
C27_Redirect ==
    \A i \in 1..Len(reqs) :
        LET r == reqs[i]
            rule == ResolvedRule(r)
        IN  rule.type = "redirect" /\ r.pc # "closed" =>
                /\ r.pc = "done"
                /\ r.status = rule.status
                /\ r.body = ""
                /\ r.location =
                        IF rule.strip_prefix # NoPrefix /\ StartsWith(r.url, rule.strip_prefix)
                        THEN rule.to \o Substring(r.url, Len(rule.strip_prefix))
                        ELSE rule.to
                /\ (rule.strip_prefix = r.url => r.location = rule.to)

-----------------------------------------------------------------------------
(* Claims about the validator *)

\* C28: validate returns valid exactly when it reports no error, whatever
\* warnings it reports, and it returns a configuration exactly when valid.
C28_ValidIffNoErrors ==
    validation.done =>
        /\ validation.valid <=> validation.errors = <<>>
        /\ validation.config.defined <=> validation.valid

\* A document with a warning and no error was found valid and its
\* configuration returned.
C28_Witness ==
    /\ validation.done
    /\ validation.warnings # <<>>
    /\ validation.errors = <<>>
    /\ validation.valid
    /\ validation.config.defined

\* The slots of the document whose rule object has a `type` that is none of
\* proxy, redirect, rewrite.
UnknownTypeSlots ==
    LET slots == RuleSlots(document) IN
    {slots[k] : k \in {n \in 1..Len(slots) :
        /\ slots[n].rule.json = "object"
        /\ In(KeyType, slots[n].rule)
        /\ Field(slots[n].rule, KeyType) \notin validTypes}}

\* C29: for every rule object with a `type` that is none of proxy, redirect,
\* rewrite, under `hosts` or not, with a `to` or not, the validator reports
\* INVALID_RULE_TYPE at its type and the loader leaves its slot out of the
\* table.
C29_UnknownTypeRejected ==
    document # JsonInvalid =>
        \A slot \in UnknownTypeSlots :
            /\ validation.done =>
                    ErrorAt("INVALID_RULE_TYPE", slot.path \o <<".">> \o KeyType)
            /\ loaded /\ parsePort(slot.portStr) # NaN =>
                    ~HasSlot(parsePort(slot.portStr).number, slot.hostname, slot.pathKey)

\* C30: the validator reports an error for every rewrite rule whose `to` does
\* not begin with "/", and none for a redirect rule whose `to` is a relative
\* path.
C30_RewriteToNeedsSlash ==
    validation.done /\ document # JsonInvalid =>
        \A k \in 1..Len(RuleSlots(document)) :
            LET slot == RuleSlots(document)[k]
                rule == slot.rule
                to == Field(rule, KeyTo)
                reported == \E n \in 1..Len(validation.errors) :
                                StartsWith(validation.errors[n].path, slot.path)
            IN  rule.json = "object" /\ In(KeyTo, rule) /\ "chars" \in DOMAIN to =>
                    /\ Field(rule, KeyType) = JsonString("rewrite")
                            /\ ~StartsWith(to.chars, <<"/">>) => reported
                    /\ Field(rule, KeyType) = JsonString("redirect")
                            /\ to.chars # <<>> /\ ~StartsWithHttp(to) => ~reported

\* The keys of a scope that route: its keys but the reserved ones.
RoutingKeys(entries) ==
    LET kept == SelectSeq(entries, LAMBDA e : e[1] \notin ReservedKeys)
    IN  [k \in 1..Len(kept) |-> kept[k][1]]

\* "*" stands before a key that is not "*".
WildcardBeforeOther(keys) ==
    \E i, j \in 1..Len(keys) : i < j /\ keys[i] = Wild /\ keys[j] # Wild

\* The <<code, path>> of the shadowing warnings the document is to get.
ShadowedScopes ==
    UNION {
        LET portStr == document.entries[n][1]
            portConfig == document.entries[n][2]
        IN  IF portStr = KeyDefaults \/ portConfig.json # "object" THEN {}
            ELSE IF HasHosts(portConfig)
            THEN LET hosts == Field(portConfig, KeyHosts).entries IN
                 {<<"SHADOWED_HOST", portStr \o <<".">> \o KeyHosts \o <<".">> \o Wild>> :
                        x \in {y \in {1} : WildcardBeforeOther([h \in 1..Len(hosts) |-> hosts[h][1]])}}
                 \cup
                 {<<"SHADOWED_PATH", portStr \o <<".">> \o KeyHosts \o <<".">> \o hosts[h][1]
                                        \o <<".">> \o Wild>> :
                        h \in {g \in 1..Len(hosts) :
                                /\ hosts[g][2].json = "object"
                                /\ WildcardBeforeOther(RoutingKeys(hosts[g][2].entries))}}
            ELSE {<<"SHADOWED_PATH", portStr \o <<".">> \o Wild>> :
                        x \in {y \in {1} : WildcardBeforeOther(RoutingKeys(portConfig.entries))}}
        : n \in 1..Len(document.entries)}

\* C31: the validator warns SHADOWED_PATH for a host scope exactly when "*"
\* stands before a non-wildcard path-key of the scope, and SHADOWED_HOST for a
\* port exactly when "*" stands before a non-wildcard host-key; reserved keys
\* are no path-keys, and a wildcard that is the last routing key of its scope
\* gets no warning.
C31_ShadowWarnings ==
    validation.done /\ document # JsonInvalid =>
        {<<validation.warnings[k].code, validation.warnings[k].path>> :
            k \in {n \in 1..Len(validation.warnings) :
                    validation.warnings[n].code \in {"SHADOWED_HOST", "SHADOWED_PATH"}}}
        = ShadowedScopes

-----------------------------------------------------------------------------
(* Claims about the listeners *)

\* C32, as stated: after loading, every port of the TLS map is a port of the
\* table, and a port of the table has a TLS-terminating listener exactly when
\* it has a TLS entry and a plain HTTP listener otherwise.
C32_TlsExactlyWhenEntry ==
    loaded /\ document # NoDocument =>
        /\ tlsConfigMap(document) \subseteq MapKeys(table)
        /\ \A port \in MapKeys(table) :
                /\ port \in tlsConfigMap(document) <=> port \in Listening /\ portTLSMap[port]
                /\ port \notin tlsConfigMap(document) <=> port \in Listening /\ ~portTLSMap[port]

\* C32: after loading, every port of the TLS map is a port of the table; a
\* port of the table without a TLS entry has a plain HTTP listener, a port
\* with a TLS entry has a TLS-terminating listener, or none when its TLS
\* material could not be loaded; no other port has a listener.
C32_TlsListeners ==
    loaded /\ document # NoDocument =>
        /\ tlsConfigMap(document) \subseteq MapKeys(table)
        /\ Listening \subseteq MapKeys(table)
        /\ \A port \in MapKeys(table) :
                IF port \in tlsConfigMap(document)
                THEN IF port \in unreadable THEN port \notin Listening
                     ELSE port \in Listening /\ portTLSMap[port]
                ELSE port \in Listening /\ ~portTLSMap[port]

\* A document was loaded whose port 80 has a TLS entry and a TLS listener and
\* whose port 81 has neither.
C32_Witness ==
    /\ loaded
    /\ document # NoDocument
    /\ tlsConfigMap(document) = {80}
    /\ MapKeys(table) = {80, 81}
    /\ Listening = {80, 81}
    /\ portTLSMap[80]
    /\ ~portTLSMap[81]

\* C33: when the TLS material of a port cannot be loaded, the port gets no
\* listener, every other port of the table gets its listener and takes
\* requests, and the process goes on.
C33_TlsFailureSkipsPort ==
    loaded /\ document # NoDocument =>
        LET failed == tlsConfigMap(document) \cap unreadable IN
        /\ Listening = MapKeys(table) \ failed
        /\ reqs = <<>> => alive
        /\ \A i \in 1..Len(reqs) : reqs[i].port \notin failed

\* The TLS material of port 80 could not be loaded, and a request on port 81
\* was dispatched to its upstream.
C33_Witness ==
    /\ loaded
    /\ document # NoDocument
    /\ 80 \in tlsConfigMap(document) \cap unreadable
    /\ 80 \notin Listening
    /\ 81 \in Listening
    /\ alive
    /\ reqs # <<>>
    /\ reqs[1].port = 81
    /\ reqs[1].pc = "upstream"

-----------------------------------------------------------------------------
(* Claims about the shapes of a document *)

\* The document with value(key, v) in the place of the value v of every port.
WithPorts(rawConfig, value(_, _)) ==
    JsonObject([n \in 1..Len(rawConfig.entries) |->
        IF rawConfig.entries[n][1] = KeyDefaults THEN rawConfig.entries[n]
        ELSE <<rawConfig.entries[n][1],
               value(rawConfig.entries[n][1], rawConfig.entries[n][2])>>])

\* A bare URL written as the path-only object {"*": U}.
AsPathObject(key, portConfig) ==
    IF IsString(portConfig) THEN JsonObject(<<<<Wild, portConfig>>>>) ELSE portConfig

\* A bare URL written as {hosts: {"*": {"*": U}}}, a path-only object as
\* {hosts: {"*": the object minus its reserved keys}}.
AsHostsObject(key, portConfig) ==
    IF IsString(portConfig)
    THEN JsonObject(<<<<KeyHosts,
            JsonObject(<<<<Wild, JsonObject(<<<<Wild, portConfig>>>>)>>>>)>>>>)
    ELSE IF portConfig.json = "object" /\ ~In(KeyHosts, portConfig)
    THEN JsonObject(<<<<KeyHosts,
            JsonObject(<<<<Wild,
                JsonObject(SelectSeq(portConfig.entries,
                                     LAMBDA e : e[1] \notin ReservedKeys))>>>>)>>>>)
    ELSE portConfig

\* The path-map object with every bare URL U written as typed \o {to: U}.
RulesAsObjects(pathObject, typed) ==
    JsonObject([k \in 1..Len(pathObject.entries) |->
        IF IsString(pathObject.entries[k][2]) /\ pathObject.entries[k][1] # KeyTls
        THEN <<pathObject.entries[k][1],
               JsonObject(typed \o <<<<KeyTo, pathObject.entries[k][2]>>>>)>>
        ELSE pathObject.entries[k]])

\* The port value with the bare URLs of its path-maps written as rule objects.
WithRuleObjects(portConfig, typed) ==
    IF portConfig.json # "object" THEN portConfig
    ELSE IF In(KeyHosts, portConfig)
    THEN JsonObject([k \in 1..Len(portConfig.entries) |->
            IF portConfig.entries[k][1] # KeyHosts THEN portConfig.entries[k]
            ELSE <<KeyHosts,
                   JsonObject([h \in 1..Len(portConfig.entries[k][2].entries) |->
                        LET host == portConfig.entries[k][2].entries[h] IN
                        IF IsString(host[2]) THEN host
                        ELSE <<host[1], RulesAsObjects(host[2], typed)>>])>>])
    ELSE RulesAsObjects(portConfig, typed)

AsToObjects(key, portConfig) == WithRuleObjects(portConfig, <<>>)

AsProxyObjects(key, portConfig) ==
    WithRuleObjects(portConfig, <<<<KeyType, JsonString("proxy")>>>>)

\* C34: the table does not depend on the shape a document is written in: a
\* bare URL as the value of a port, {"*": U} and {hosts: {"*": {"*": U}}}
\* load to the same table, a path-only object loads to the table of
\* {hosts: {"*": the object minus its reserved keys}}, and a bare URL as a
\* rule loads to the ProxyRule of {to: U} and of {type: proxy, to: U}.
C34_ShapesLoadAlike ==
    loaded /\ document # NoDocument =>
        /\ table = fromRawConfig(WithPorts(document, AsPathObject))
        /\ table = fromRawConfig(WithPorts(document, AsHostsObject))
        /\ table = fromRawConfig(WithPorts(document, AsToObjects))
        /\ table = fromRawConfig(WithPorts(document, AsProxyObjects))
        /\ \A slot \in Slots :
                \A n \in 1..Len(document.entries) :
                    /\ parsePort(document.entries[n][1]) = JsonNumber(slot[1])
                    /\ document.entries[n][2].json = "object"
                    /\ ~In(KeyHosts, document.entries[n][2])
                    /\ In(slot[3], document.entries[n][2])
                    /\ IsString(Field(document.entries[n][2], slot[3]))
                    => RuleAt(slot) =
                            ProxyRule(<<Field(document.entries[n][2], slot[3]).string>>)

\* A path-only port object with `tls` and with bare URLs at /a and "*" was
\* loaded, and its rewritten shapes are other documents.
C34_Witness ==
    /\ loaded
    /\ document # NoDocument
    /\ In(Key80, document)
    /\ Field(document, Key80).json = "object"
    /\ In(KeyTls, Field(document, Key80))
    /\ IsString(Field(Field(document, Key80), PathA))
    /\ IsString(Field(Field(document, Key80), Wild))
    /\ WithPorts(document, AsHostsObject) # document
    /\ WithPorts(document, AsProxyObjects) # document
    /\ RuleAt(<<80, Wild, PathA>>) = ProxyRule(<<"http://a1">>)

-----------------------------------------------------------------------------
(* Claims about shutdown *)

\* C35: on a graceful shutdown, by stop() or by SIGINT or SIGTERM, no
\* listener takes a new request, and the process goes away only when no
\* request is in flight any more: every request that was in flight has run
\* to its completion.
C35_ShutdownDrains ==
    [][/\ servers = {} => Len(reqs') = Len(reqs)
       /\ alive /\ ~alive' /\ reqs' = reqs =>
            \A i \in 1..Len(reqs) : reqs[i].pc \notin {"upstream", "piping"}]_vars

-----------------------------------------------------------------------------
(* Claims about the cursors *)

\* C36: every dispatch to a ProxyRule with exactly one target selects that
\* target and leaves the cursor map as it was: no cursor is created and none
\* is changed, however many such dispatches there are.
C36_SingleTargetNoCursor ==
    [][Len(reqs') = Len(reqs) + 1 =>
        LET r == reqs'[Len(reqs')] IN
        r.route # NoRoute /\ RuleAt(r.route).type = "proxy"
                /\ Len(RuleAt(r.route).targets) = 1 =>
            /\ roundRobinCounters' = roundRobinCounters
            /\ r.key = NoKey
            /\ r.pc = "upstream" /\ r.target = RuleAt(r.route).targets[1]]_vars

\* After a load-balanced dispatch that made a cursor, a request was
\* dispatched to the one target of its rule, and the cursor map holds that
\* one cursor still.
C36_Witness ==
    /\ Len(reqs) = 2
    /\ reqs[1].key # NoKey
    /\ reqs[2].route = <<80, HostH1, PathA>>
    /\ Len(RuleAt(reqs[2].route).targets) = 1
    /\ reqs[2].pc = "upstream"
    /\ reqs[2].target = "http://a1"
    /\ reqs[2].key = NoKey
    /\ MapKeys(roundRobinCounters) = {reqs[1].key}

-----------------------------------------------------------------------------
(* Claims about a validated configuration *)

\* C37: in the table validate returns for a document it finds valid, every
\* ProxyRule has at least one target and every target is an http or https
\* URL with a hostname, and every RedirectRule and RewriteRule has a `to`
\* that is not empty; a request to a server started on such a document meets
\* no empty target list and no target that is no URL.
C37_ValidatedTableDispatches ==
    /\ validation.done /\ validation.valid =>
            LET configMap == validation.config.configMap IN
            \A n \in 1..Len(configMap) :
                \A m \in 1..Len(configMap[n][2]) :
                    \A k \in 1..Len(configMap[n][2][m][2]) :
                        LET rule == configMap[n][2][m][2][k][2] IN
                        IF rule.type = "proxy"
                        THEN /\ Len(rule.targets) >= 1
                             /\ \A t \in 1..Len(rule.targets) : rule.targets[t] \in ValidOrigins
                        ELSE rule.to # <<>>
    /\ loaded /\ document # NoDocument /\ validate(document).valid =>
            \A i \in 1..Len(reqs) : reqs[i].pc = "threw" => reqs[i].via = "redirect"

-----------------------------------------------------------------------------
(* Claims about the order of the fallbacks *)

\* C38: the host is settled before the path is looked up and is not looked at
\* again: when the port has the exact host-key, getRule returns what the
\* path-map of that host-key holds for the path, its exact path-key first and
\* "*" second, and none when it holds neither, whatever the path-map of host
\* "*" holds.
C38_HostSettledFirst ==
    query.asked /\ HasHost(query.port, query.hostname) =>
        LET pathMap == MapGet(MapGet(table, query.port), query.hostname) IN
        answer = IF MapHas(pathMap, query.path) THEN MapGet(pathMap, query.path)
                 ELSE IF MapHas(pathMap, Wild) THEN MapGet(pathMap, Wild)
                 ELSE NoRule

\* Host h1 has a path-map with neither /b nor "*", host "*" has a rule for
\* every path, and getRule(80, h1, /b) returned none.
C38_Witness ==
    /\ query.asked
    /\ query.port = 80
    /\ query.hostname = HostH1
    /\ query.path = PathB
    /\ HasSlot(80, HostH1, PathA)
    /\ ~HasSlot(80, HostH1, PathB)
    /\ ~HasSlot(80, HostH1, Wild)
    /\ HasSlot(80, Wild, Wild)
    /\ answer = NoRule

-----------------------------------------------------------------------------
(* Claims about what request handling changes *)

\* C39: once the server is up, no step of the handling of a request, be it a
\* proxy, a redirect, a rewrite with or without its fallback scan, or a 404,
\* changes the routing table, the TLS map or the defaults; of the state that
\* outlives a request only the cursor map changes, and only in a dispatch.
C39_ConfigurationReadOnly ==
    [][/\ table' = table
       /\ portTLSMap' = portTLSMap
       /\ defaultsConfig' = defaultsConfig
       /\ roundRobinCounters' # roundRobinCounters => Len(reqs') = Len(reqs) + 1]_vars

\* A rewrite was forwarded by the fallback scan and a later request was
\* load-balanced, which made a cursor.
C39_Witness ==
    /\ Len(reqs) = 2
    /\ reqs[1].via = "rewrite-fallback"
    /\ reqs[1].route # NoRoute
    /\ reqs[2].via = "proxy"
    /\ reqs[2].key # NoKey
    /\ roundRobinCounters # EmptyMap

\* The routes of the table that hold a ProxyRule with two or more targets.
BalancedRoutes ==
    {slot \in Slots : RuleAt(slot).type = "proxy" /\ Len(RuleAt(slot).targets) >= 2}

\* C40: the cursor map holds at most one cursor for each route of the table
\* with two or more targets, and none for anything else: its size never
\* exceeds the number of those routes, whatever URLs and Host values the
\* requests carry.
C40_CursorsBoundedByRoutes ==
    /\ Len(roundRobinCounters) <= Cardinality(BalancedRoutes)
    /\ \A i, j \in Balanced : reqs[i].route = reqs[j].route => reqs[i].key = reqs[j].key

====
